---- MODULE Spec2Model ----
(***************************************************************************)
(* Model of the firestorm load harness: the orchestrator's batch connector *)
(* and start barrier (run-firestorm.py), the per-agent session loop        *)
(* (agents/base_agent.py), the TCP client (tools/syndrdb_client.py) and    *)
(* the health monitor (conductor/health_monitor.py).                       *)
(*                                                                         *)
(* The module holds several specifications over one set of variables.      *)
(*   SpecBatch connect_all_agents                                          *)
(*   SpecOrch  start_test: connect_all_agents, the start barrier and the   *)
(*             runner threads up to their first queries                    *)
(*   SpecRun   one agent's run_pregenerated_session                        *)
(*   SpecConn  several threads calling execute() on one SyndrDBClient      *)
(*   SpecHandshake  one connect() call against a server's byte stream      *)
(*   SpecFrame  one connect() call and the execute() calls after it, read  *)
(*             byte by byte from one server stream                         *)
(*   SpecLife  connect(), execute() and disconnect() calls on one client   *)
(*   SpecHealth  record_query, check_connection, collect_metrics and       *)
(*             is_healthy calls made one after another on a HealthMonitor  *)
(*   SpecRecord  several threads inside record_query on one HealthMonitor  *)
(*   SpecShare  SpecConn with connect() and disconnect() calls of another  *)
(*             thread                                                      *)
(*   SpecFilter  the read-only / write-only filters and the queries the    *)
(*             agents send afterwards                                      *)
(*   SpecWait  wait_for_completion and collect_metrics against the runner  *)
(*             threads                                                     *)
(*   SpecCreate  create_agents for a requested number of agents            *)
(*   SpecLog   emit(), flush() and stop() calls on one                     *)
(*             MemoryMappedLogHandler and its writer thread; SpecLogFair   *)
(*             adds the scheduling of the threads                          *)
(* Each specification leaves the other groups of variables untouched.      *)
(***************************************************************************)
EXTENDS Integers, Sequences, FiniteSets, TLC

(* ------------------------------------------------------------------ *)
(* Bounds of the model                                                 *)
(* ------------------------------------------------------------------ *)
MaxAgents == 5
MaxBatch == 3
MaxFleet == 2
MaxClock == 2
MaxDuration == 1
MaxSends == 1
MaxQueries == 2
MaxExec == 3
MaxRunClock == 3
NumThreads == 2
MaxCalls == 2
MaxFilterAgents == 2
MaxListLen == 2
MaxFilterSends == 2

None == -1

VARIABLES
  \* ---- orchestrator (FirestormOrchestrator) ----
  num_agents,        \* len(self.agents)
  batch_conns,       \* self.batch_conns
  duration_seconds,  \* self.duration_seconds
  opc,               \* position of the orchestrating thread
  batch_start,       \* loop variable of connect_all_agents (0-based)
  spawn_i,           \* 0-based index of the next agent of the batch to get a thread
  cthread,           \* per agent: state of its connect thread
  batch_results,     \* list the connect threads append their tuples to
  connected_count,
  failed_agents,
  connected,         \* per agent: db_client.connected
  connect_ret,       \* per agent: what db_client.connect() returned in the batch
  connect_calls,     \* per agent: number of connect() calls made by the batch connector
  barrier_parties,   \* threading.Barrier: parties (0 until it is created)
  barrier_count,     \* threading.Barrier: _count
  barrier_state,     \* threading.Barrier: _state (filling / draining)
  barrier_releases,  \* number of times the barrier has released
  start_i,           \* number of runner threads started so far
  rpc,               \* per agent: position of its runner thread (_run_agent)
  runner_stop_time,  \* per agent: the local stop_time of _run_agent
  test_start_time,
  stop_time,         \* self.stop_time
  sent,              \* per agent: queries put on the wire in the load phase
  clock,             \* time.time()
  \* ---- one SyndrDBClient ----
  db_connected,          \* self.connected
  allow_auto_reconnect,  \* self.allow_auto_reconnect
  \* ---- one agent's run_pregenerated_session (BaseAgent) ----
  pregenerated_queries,
  session_stop_time,     \* the stop_time argument (None: run the list once)
  skip_connect,
  think_time_zero,       \* think_time_range == (0, 0)
  spc,                   \* position in run_pregenerated_session
  cycle_count,
  total_queries_executed,
  idx,                   \* 0-based index of the for loop
  queries_executed,
  successful_queries,
  failed_queries,
  errors,
  transaction_counter,
  execution_results,
  session_start_time,
  last_check,            \* time.time() as read by the latest deadline check
  disconnect_calls,      \* number of db_client.disconnect() calls
  start_session_calls,   \* number of start_session() calls (db_client.connect())
  \* ---- threads calling execute() on the one SyndrDBClient ----
  lock,                  \* self._lock: 0 when free, else the thread holding it
  tpc,                   \* per thread: position in execute()
  calls,                 \* per thread: execute() calls made so far
  returned,              \* per thread: what its latest execute() returned
  response_data,         \* what the receive loop has accumulated so far
  wire_pending,          \* requests on the live socket the server still has to answer
  peer_closed,           \* the server has closed the live socket
  sock,                  \* self.socket: "none", or the state of the socket it refers to
                         \* (followed by SpecConn and SpecHandshake only)
  attempts,              \* connect() calls made by the execute() call inside the lock
  caught,                \* the exception that execute() call has caught, if any
  \* ---- one connect() call (SyndrDBClient.connect) ----
  hpc,                   \* position in connect()
  opened,                \* state of the socket this connect() call created
  stream,                \* the bytes the server sends before it closes or falls silent
  stream_pos,            \* number of bytes of the stream recv() has returned so far
  reads,                 \* number of recv() calls that returned bytes
  buffer,
  welcome_msg,           \* <<>> for None, else <<the welcome line>>
  auth_msg,              \* <<>> for None, else <<the decoded auth response>>
  connect_returned,      \* what connect() returned
  connect_error,         \* the exception connect() caught and logged
  \* ---- one client's life cycle (SyndrDBClient) ----
  life_calls,            \* number of calls made on the client so far
  last_op,               \* the call made last
  alternating,           \* the calls so far were connect(), disconnect(), connect(), ...
  stale_open,            \* sockets the client opened, no longer holds and never closed
  close_raised,          \* socket.close() raised inside the last disconnect()
  disconnect_result,     \* how the last disconnect() ended
  \* ---- health monitor (HealthMonitor) ----
  query_times,           \* self.query_times, a deque(maxlen=100), oldest first
  query_success,         \* self.query_success, a deque(maxlen=100)
  connection_checks,     \* self.connection_checks, a deque(maxlen=20)
  total_queries,         \* self.total_queries
  total_successful,      \* self.total_successful
  total_failed,          \* self.total_failed
  fail_count,            \* input: the first fail_count recorded queries failed
  lat_base,              \* input: the lowest latency recorded, in 1/1000 ms
  record_calls,          \* number of record_query calls made so far
  metrics,               \* <<>>, or <<what collect_metrics computed last>>
  healthy,               \* <<>>, or <<what is_healthy returned last>>
  recpc,                 \* position of each thread inside record_query
  rec_success,           \* each thread's argument success
  loaded,                \* the counter value each thread read for its +=
  rec_calls,             \* record_query calls each thread has made
  \* ---- execute() read at the level of bytes (SyndrDBClient) ----
  epc,                   \* position in execute()
  exec_data,             \* response_data, the bytes received by this call
  decoded,               \* the texts execute() calls handed to json.loads so far
  exec_calls,            \* number of execute() calls made
  \* ---- query filters (FirestormOrchestrator) ----
  run_mode,              \* "read_only", "write_only" or "none" (self.read_only, self.write_only)
  agent_queries,         \* each agent's pregenerated_queries
  fpc,                   \* "loaded": queries loaded, "filtered": filters applied
  sent_count,            \* queries each agent has sent in the load phase
  last_sent,             \* the query each agent sent last, "none" before the first
  \* ---- wait_for_completion (FirestormOrchestrator) ----
  wpc,                   \* position of the main thread
  join_idx,              \* index of the thread the join loop is at
  wait_stop,             \* self.stop_time
  runner_pos,            \* each runner thread: "loop", "query" or "done"
  runner_mutations,      \* updates each runner has made to its agent's counters
  metrics_read,          \* what collect_metrics read of each agent, None before
  \* ---- create_agents (FirestormOrchestrator) ----
  cpc,                   \* position in create_agents
  requested_agents,      \* self.num_agents
  agent_counts,          \* agent_counts, per persona
  persona_idx,           \* position of the loops over the personas
  range_i,               \* i of `for i in range(count)`
  created_agents,        \* self.agents, as the personas created in order
  \* ---- MemoryMappedLogHandler ----
  log_queue,             \* self.log_queue: the messages put and not yet got
  unfinished_tasks,      \* the queue's count of put() minus task_done()
  running,               \* self.running
  current_position,      \* self.current_position
  wrpc,                  \* position of the writer thread
  writer_msg,            \* the message the writer thread holds, <<>> if none
  accepted,              \* the messages emit() has put into the queue, in order
  processed,             \* the messages the writer has finished, in order
  stpc,                  \* position of the thread calling stop()
  flpc,                  \* position of the thread calling flush()
  flush_mark,            \* number of messages accepted when flush() was called
  emit_calls             \* number of emit() calls made

orchVars == <<num_agents, batch_conns, duration_seconds, opc, batch_start, spawn_i,
              cthread, batch_results, connected_count, failed_agents, connected,
              connect_ret, connect_calls, barrier_parties, barrier_count,
              barrier_state, barrier_releases, start_i, rpc, runner_stop_time,
              test_start_time, stop_time, sent>>

clientVars == <<db_connected, allow_auto_reconnect>>

runVars == <<pregenerated_queries, session_stop_time, skip_connect, think_time_zero,
             spc, cycle_count, total_queries_executed, idx, queries_executed,
             successful_queries, failed_queries, errors, transaction_counter,
             execution_results, session_start_time, last_check, disconnect_calls,
             start_session_calls>>

connVars == <<lock, tpc, calls, returned, response_data, wire_pending, peer_closed,
              sock, attempts, caught>>

hsVars == <<hpc, opened, stream, stream_pos, reads, buffer, welcome_msg, auth_msg,
            connect_returned, connect_error>>

lifeVars == <<life_calls, last_op, alternating, stale_open, close_raised,
              disconnect_result>>

monitorVars == <<query_times, query_success, connection_checks, total_queries,
                 total_successful, total_failed, record_calls>>
recorderVars == <<recpc, rec_success, loaded, rec_calls>>
healthVars == <<monitorVars, fail_count, lat_base, metrics, healthy, recorderVars>>

frameVars == <<epc, exec_data, decoded, exec_calls>>

filterVars == <<run_mode, agent_queries, fpc, sent_count, last_sent>>

\* the groups of the specifications defined last
waitVars == <<wpc, join_idx, wait_stop, runner_pos, runner_mutations, metrics_read>>
createVars == <<cpc, requested_agents, agent_counts, persona_idx, range_i, created_agents>>
logVars == <<log_queue, unfinished_tasks, running, current_position, wrpc, writer_msg,
             accepted, processed, stpc, flpc, flush_mark, emit_calls>>
lateVars == <<filterVars, waitVars, createVars, logVars>>

vars == <<orchVars, clock, clientVars, runVars, connVars, hsVars, lifeVars,
          healthVars, frameVars, lateVars>>

Threads == 1..NumThreads

\* the parts of the state a specification does not use stay as constructed
ClientIdle == db_connected = FALSE /\ allow_auto_reconnect = TRUE
RunIdle ==
  /\ pregenerated_queries = <<>>
  /\ session_stop_time = None
  /\ skip_connect = FALSE
  /\ think_time_zero = TRUE
  /\ spc = "idle"
  /\ cycle_count = 0
  /\ total_queries_executed = 0
  /\ idx = 0
  /\ queries_executed = 0
  /\ successful_queries = 0
  /\ failed_queries = 0
  /\ errors = <<>>
  /\ transaction_counter = 0
  /\ execution_results = <<>>
  /\ session_start_time = 0
  /\ last_check = 0
  /\ disconnect_calls = 0
  /\ start_session_calls = 0

ConnIdle ==
  /\ lock = 0
  /\ tpc = [t \in Threads |-> "idle"]
  /\ calls = [t \in Threads |-> 0]
  /\ returned = [t \in Threads |-> "none"]
  /\ response_data = "empty"
  /\ wire_pending = 0
  /\ peer_closed = FALSE
  /\ sock = "none"
  /\ attempts = 0
  /\ caught = "none"

HsIdle ==
  /\ hpc = "idle"
  /\ opened = "none"
  /\ stream = <<>>
  /\ stream_pos = 0
  /\ reads = 0
  /\ buffer = <<>>
  /\ welcome_msg = <<>>
  /\ auth_msg = <<>>
  /\ connect_returned = "none"
  /\ connect_error = "none"

LifeIdle ==
  /\ life_calls = 0
  /\ last_op = "none"
  /\ alternating = TRUE
  /\ stale_open = 0
  /\ close_raised = FALSE
  /\ disconnect_result = "none"

MonitorIdle ==
  /\ query_times = <<>>
  /\ query_success = <<>>
  /\ connection_checks = <<>>
  /\ total_queries = 0
  /\ total_successful = 0
  /\ total_failed = 0
  /\ record_calls = 0
  /\ metrics = <<>>
  /\ healthy = <<>>

RecorderIdle ==
  /\ recpc = [t \in Threads |-> "idle"]
  /\ rec_success = [t \in Threads |-> FALSE]
  /\ loaded = [t \in Threads |-> 0]
  /\ rec_calls = [t \in Threads |-> 0]

HealthIdle == MonitorIdle /\ RecorderIdle /\ fail_count = 0 /\ lat_base = 0

FrameIdle ==
  /\ epc = "idle"
  /\ exec_data = <<>>
  /\ decoded = <<>>
  /\ exec_calls = 0

FilterAgents == 1..MaxFilterAgents

FilterIdle ==
  /\ run_mode = "none"
  /\ agent_queries = [a \in FilterAgents |-> <<>>]
  /\ fpc = "loaded"
  /\ sent_count = [a \in FilterAgents |-> 0]
  /\ last_sent = [a \in FilterAgents |-> "none"]

WaitIdle ==
  /\ wpc = "idle"
  /\ join_idx = 0
  /\ wait_stop = 0
  /\ runner_pos = [t \in Threads |-> "done"]
  /\ runner_mutations = [t \in Threads |-> 0]
  /\ metrics_read = [t \in Threads |-> None]

PersonaOrder == <<"casual_browser", "power_user", "admin", "analyst">>
Personas == {PersonaOrder[i] : i \in 1..Len(PersonaOrder)}

CreateIdle ==
  /\ cpc = "idle"
  /\ requested_agents = 0
  /\ agent_counts = [p \in Personas |-> 0]
  /\ persona_idx = 0
  /\ range_i = 0
  /\ created_agents = <<>>

LogIdle ==
  /\ log_queue = <<>>
  /\ unfinished_tasks = 0
  /\ running = FALSE
  /\ current_position = 0
  /\ wrpc = "none"
  /\ writer_msg = <<>>
  /\ accepted = <<>>
  /\ processed = <<>>
  /\ stpc = "idle"
  /\ flpc = "idle"
  /\ flush_mark = 0
  /\ emit_calls = 0

LateIdle == FilterIdle /\ WaitIdle /\ CreateIdle /\ LogIdle

OrchFrame ==
  UNCHANGED <<clientVars, runVars, connVars, hsVars, lifeVars, healthVars, frameVars, lateVars>>

AgentIds == 1..MaxAgents
Agents == 1..num_agents

(* ------------------------------------------------------------------ *)
(* connect_all_agents                                                  *)
(* ------------------------------------------------------------------ *)

\* batch_end = min(batch_start + batch_size, len(self.agents))
BatchEnd(bs) == IF bs + batch_conns < num_agents THEN bs + batch_conns ELSE num_agents

\* batch = self.agents[batch_start:batch_end], as 1-based agent positions
Batch == (batch_start + 1)..BatchEnd(batch_start)

\* the tuple connect_agent returns: connect() reports failure by returning
\* False and never raises, so the try branch always yields (agent, True, None)
connect_agent(a, ret) == <<a, TRUE>>

\* for thread in batch_threads: thread.join()
BatchJoinedNoWait == TRUE
BatchJoined == \A a \in Batch : cthread[a] = "done"

RECURSIVE FailedOf(_)
FailedOf(results) ==
  IF results = <<>> THEN <<>>
  ELSE IF results[1][2] THEN FailedOf(Tail(results))
       ELSE <<results[1][1]>> \o FailedOf(Tail(results))

RECURSIVE SuccessCount(_)
SuccessCount(results) ==
  IF results = <<>> THEN 0
  ELSE (IF results[1][2] THEN 1 ELSE 0) + SuccessCount(Tail(results))

OrchInit ==
  /\ num_agents \in 1..MaxAgents
  /\ batch_conns \in 1..MaxBatch
  /\ duration_seconds \in 0..MaxDuration
  /\ opc = "batch_loop"
  /\ batch_start = 0
  /\ spawn_i = 0
  /\ cthread = [a \in AgentIds |-> "none"]
  /\ batch_results = <<>>
  /\ connected_count = 0
  /\ failed_agents = <<>>
  /\ connected = [a \in AgentIds |-> FALSE]
  /\ connect_ret = [a \in AgentIds |-> "none"]
  /\ connect_calls = [a \in AgentIds |-> 0]
  /\ barrier_parties = 0
  /\ barrier_count = 0
  /\ barrier_state = "filling"
  /\ barrier_releases = 0
  /\ start_i = 0
  /\ rpc = [a \in AgentIds |-> "unstarted"]
  /\ runner_stop_time = [a \in AgentIds |-> None]
  /\ test_start_time = 0
  /\ stop_time = 0
  /\ sent = [a \in AgentIds |-> 0]

barrierVars == <<barrier_parties, barrier_count, barrier_state, barrier_releases>>
connectVars == <<batch_start, spawn_i, cthread, batch_results, connected_count,
                 failed_agents, connect_ret, connect_calls>>
runnerVars == <<rpc, runner_stop_time, sent>>
configVars == <<num_agents, batch_conns, duration_seconds>>

\* for batch_start in range(0, len(self.agents), batch_size): loop head
BatchLoop ==
  /\ opc = "batch_loop"
  /\ IF batch_start < num_agents
     THEN /\ opc' = "spawn"
          /\ spawn_i' = batch_start
          /\ batch_results' = <<>>
     ELSE /\ opc' = "check_failed"
          /\ UNCHANGED <<spawn_i, batch_results>>
  /\ UNCHANGED <<configVars, batch_start, cthread, connected_count, failed_agents,
                 connected, connect_ret, connect_calls, barrierVars, start_i,
                 runnerVars, test_start_time, stop_time, clock>>
  /\ OrchFrame

\* thread = threading.Thread(target=...connect_agent(a)); thread.start()
SpawnConnect ==
  /\ opc = "spawn"
  /\ spawn_i < BatchEnd(batch_start)
  /\ cthread' = [cthread EXCEPT ![spawn_i + 1] = "running"]
  /\ spawn_i' = spawn_i + 1
  /\ opc' = IF spawn_i + 1 = BatchEnd(batch_start) THEN "join" ELSE "spawn"
  /\ UNCHANGED <<configVars, batch_start, batch_results, connected_count,
                 failed_agents, connected, connect_ret, connect_calls, barrierVars,
                 start_i, runnerVars, test_start_time, stop_time, clock>>
  /\ OrchFrame

\* the connect thread: batch_results.append(connect_agent(a)); the handshake
\* succeeds or fails as the server decides
ConnectThreadRun(a) ==
  /\ cthread[a] = "running"
  /\ \E ret \in BOOLEAN :
       /\ connected' = [connected EXCEPT ![a] = ret]
       /\ connect_ret' = [connect_ret EXCEPT ![a] = IF ret THEN "true" ELSE "false"]
       /\ batch_results' = Append(batch_results, connect_agent(a, ret))
  /\ connect_calls' = [connect_calls EXCEPT ![a] = @ + 1]
  /\ cthread' = [cthread EXCEPT ![a] = "done"]
  /\ UNCHANGED <<configVars, opc, batch_start, spawn_i, connected_count,
                 failed_agents, barrierVars, start_i, runnerVars, test_start_time,
                 stop_time, clock>>
  /\ OrchFrame

\* join the batch's threads, then "Process results from this batch"
JoinBatch ==
  /\ opc = "join"
  /\ BatchJoined
  /\ connected_count' = connected_count + SuccessCount(batch_results)
  /\ failed_agents' = failed_agents \o FailedOf(batch_results)
  /\ batch_start' = batch_start + batch_conns
  /\ opc' = "batch_loop"
  /\ UNCHANGED <<configVars, spawn_i, cthread, batch_results, connected,
                 connect_ret, connect_calls, barrierVars, start_i, runnerVars,
                 test_start_time, stop_time, clock>>
  /\ OrchFrame

(* ------------------------------------------------------------------ *)
(* start_test and the start barrier                                    *)
(* ------------------------------------------------------------------ *)

\* threading.Barrier(len(self.agents) + 1)
BarrierPartiesNoMain(n) == n
BarrierParties(n) == n + 1

\* if failed_agents: raise ...; otherwise connect_all_agents returns (its
\* per-batch result list goes out of scope) and start_test creates the barrier
CheckFailed ==
  /\ opc = "check_failed"
  /\ IF failed_agents # <<>>
     THEN /\ opc' = "aborted"
          /\ UNCHANGED barrier_parties
     ELSE /\ opc' = "start_threads"
          /\ barrier_parties' = BarrierParties(num_agents)
  /\ batch_results' = <<>>
  /\ UNCHANGED <<configVars, batch_start, spawn_i, cthread, connected_count,
                 failed_agents, connect_ret, connect_calls, connected, barrier_count,
                 barrier_state, barrier_releases, start_i, runnerVars,
                 test_start_time, stop_time, clock>>
  /\ OrchFrame

\* for agent in self.agents: Thread(target=self._run_agent, ...).start()
StartAgentThread ==
  /\ opc = "start_threads"
  /\ start_i < num_agents
  /\ rpc' = [rpc EXCEPT ![start_i + 1] = "started"]
  /\ start_i' = start_i + 1
  /\ opc' = IF start_i + 1 = num_agents THEN "set_stop" ELSE "start_threads"
  /\ UNCHANGED <<configVars, connectVars, connected, barrierVars, runner_stop_time,
                 sent, test_start_time, stop_time, clock>>
  /\ OrchFrame

\* self.test_start_time = time.time(); self.stop_time = start + duration
SetStopTimeSkipped ==
  /\ opc = "set_stop"
  /\ opc' = "barrier_wait"
  /\ UNCHANGED <<test_start_time, stop_time>>
  /\ UNCHANGED <<configVars, connectVars, connected, barrierVars, start_i,
                 runnerVars, clock>>
  /\ OrchFrame
SetStopTime ==
  /\ opc = "set_stop"
  /\ test_start_time' = clock
  /\ stop_time' = clock + duration_seconds
  /\ opc' = "barrier_wait"
  /\ UNCHANGED <<configVars, connectVars, connected, barrierVars, start_i,
                 runnerVars, clock>>
  /\ OrchFrame

\* threading.Barrier.wait(): the arriving thread either completes the barrier
\* (it releases the others and leaves at once) or blocks until it drains
BarrierIsLast == barrier_count + 1 = barrier_parties
BarrierArrive ==
  /\ barrier_state = "filling"
  /\ IF BarrierIsLast
     THEN /\ barrier_count' = barrier_count
          /\ barrier_state' = IF barrier_count = 0 THEN "filling" ELSE "draining"
          /\ barrier_releases' = barrier_releases + 1
     ELSE /\ barrier_count' = barrier_count + 1
          /\ UNCHANGED <<barrier_state, barrier_releases>>
  /\ UNCHANGED barrier_parties
BarrierLeave ==
  /\ barrier_state = "draining"
  /\ barrier_count' = barrier_count - 1
  /\ barrier_state' = IF barrier_count - 1 = 0 THEN "filling" ELSE "draining"
  /\ UNCHANGED <<barrier_parties, barrier_releases>>

\* start_barrier.wait() of the orchestrating thread
OrchBarrierWait ==
  /\ opc = "barrier_wait"
  /\ BarrierArrive
  /\ opc' = IF BarrierIsLast THEN "launched" ELSE "barrier_blocked"
  /\ UNCHANGED <<configVars, connectVars, connected, start_i, runnerVars,
                 test_start_time, stop_time, clock>>
  /\ OrchFrame

OrchBarrierLeave ==
  /\ opc = "barrier_blocked"
  /\ BarrierLeave
  /\ opc' = "launched"
  /\ UNCHANGED <<configVars, connectVars, connected, start_i, runnerVars,
                 test_start_time, stop_time, clock>>
  /\ OrchFrame

(* ------------------------------------------------------------------ *)
(* _run_agent: one runner thread per agent                             *)
(* ------------------------------------------------------------------ *)

\* start_barrier.wait() of a runner thread
RunnerBarrierWait(a) ==
  /\ rpc[a] = "started"
  /\ BarrierArrive
  /\ rpc' = [rpc EXCEPT ![a] = IF BarrierIsLast THEN "released" ELSE "waiting"]
  /\ UNCHANGED <<configVars, opc, connectVars, connected, start_i,
                 runner_stop_time, sent, test_start_time, stop_time, clock>>
  /\ OrchFrame

RunnerBarrierLeave(a) ==
  /\ rpc[a] = "waiting"
  /\ BarrierLeave
  /\ rpc' = [rpc EXCEPT ![a] = "released"]
  /\ UNCHANGED <<configVars, opc, connectVars, connected, start_i,
                 runner_stop_time, sent, test_start_time, stop_time, clock>>
  /\ OrchFrame

\* stop_time = self.stop_time
RunnerReadStopTime(a) ==
  /\ rpc[a] = "released"
  /\ runner_stop_time' = [runner_stop_time EXCEPT ![a] = stop_time]
  /\ rpc' = [rpc EXCEPT ![a] = "session"]
  /\ UNCHANGED <<configVars, opc, connectVars, connected, barrierVars, start_i,
                 sent, test_start_time, stop_time, clock>>
  /\ OrchFrame

\* one iteration of the session loop, seen from the orchestrator: the deadline
\* check, then db_client.execute(), which reconnects a lost connection
\* (allow_auto_reconnect is True) and sends the query unless the reconnect fails;
\* an I/O error on the way marks the connection disconnected
RunnerQuery(a) ==
  /\ rpc[a] = "session"
  /\ sent[a] < MaxSends
  /\ clock < runner_stop_time[a]
  /\ \E reconnected \in BOOLEAN, io_ok \in BOOLEAN :
       IF connected[a] \/ reconnected
       THEN /\ sent' = [sent EXCEPT ![a] = @ + 1]
            /\ connected' = [connected EXCEPT ![a] = io_ok]
       ELSE /\ UNCHANGED sent
            /\ connected' = [connected EXCEPT ![a] = FALSE]
  /\ UNCHANGED <<configVars, opc, connectVars, barrierVars, start_i, rpc,
                 runner_stop_time, test_start_time, stop_time, clock>>
  /\ OrchFrame

\* the session is over: end_session() disconnects
RunnerEnd(a) ==
  /\ rpc[a] = "session"
  /\ connected' = [connected EXCEPT ![a] = FALSE]
  /\ rpc' = [rpc EXCEPT ![a] = "done"]
  /\ UNCHANGED <<configVars, opc, connectVars, barrierVars, start_i,
                 runner_stop_time, sent, test_start_time, stop_time, clock>>
  /\ OrchFrame

\* wall-clock time passes
OrchTick ==
  /\ clock < MaxClock
  /\ clock' = clock + 1
  /\ UNCHANGED orchVars
  /\ OrchFrame

\* connect_all_agents on its own
BatchNext ==
  \/ BatchLoop
  \/ SpawnConnect
  \/ \E a \in Agents : ConnectThreadRun(a)
  \/ JoinBatch
  \/ CheckFailed

\* start_test: connect_all_agents, then the barrier and the runner threads
OrchNext ==
  \/ BatchNext
  \/ StartAgentThread
  \/ SetStopTime
  \/ OrchBarrierWait
  \/ OrchBarrierLeave
  \/ \E a \in Agents : RunnerBarrierWait(a)
  \/ \E a \in Agents : RunnerBarrierLeave(a)
  \/ \E a \in Agents : RunnerReadStopTime(a)
  \/ \E a \in Agents : RunnerQuery(a)
  \/ \E a \in Agents : RunnerEnd(a)
  \/ OrchTick

InitBatch ==
  /\ OrchInit /\ clock = 1 /\ ClientIdle /\ RunIdle /\ ConnIdle /\ HsIdle
  /\ LifeIdle /\ HealthIdle /\ FrameIdle /\ LateIdle

SpecBatch == InitBatch /\ [][BatchNext]_vars

InitOrch == InitBatch /\ num_agents <= MaxFleet

SpecOrch == InitOrch /\ [][OrchNext]_vars

\* thread scheduling is fair: a thread that can take its next step at the barrier
\* eventually takes it
FairSpecOrch ==
  /\ SpecOrch
  /\ WF_vars(OrchBarrierWait)
  /\ WF_vars(OrchBarrierLeave)
  /\ \A a \in AgentIds : WF_vars(RunnerBarrierWait(a))
  /\ \A a \in AgentIds : WF_vars(RunnerBarrierLeave(a))

(* ------------------------------------------------------------------ *)
(* Properties of the orchestrator                                      *)
(* ------------------------------------------------------------------ *)

OrchArrived == opc \in {"barrier_blocked", "launched"}
RunnerArrived(a) == rpc[a] \in {"waiting", "released", "session", "done"}
RunnerPassed(a) == rpc[a] \in {"released", "session", "done"}
AllArrived == OrchArrived /\ \A a \in Agents : RunnerArrived(a)
AllReleased == opc = "launched" /\ \A a \in Agents : RunnerPassed(a)
ConnectAllFinished == opc \notin {"batch_loop", "spawn", "join"}
ConnectAllRaised == opc = "aborted"
FailedSet == {failed_agents[i] : i \in 1..Len(failed_agents)}
InFlight == {a \in Agents : cthread[a] = "running"}
BatchOf(a) == (a - 1) \div batch_conns

\* C2: every runner that has passed the barrier and read stop_time holds the
\* value the orchestrating thread wrote before arriving at the barrier
\* (test_start_time + duration_seconds), the same for all, and never the initial 0.
C2_SameStopTime ==
  \A a \in Agents :
    runner_stop_time[a] # None =>
      /\ OrchArrived
      /\ runner_stop_time[a] = stop_time
      /\ runner_stop_time[a] = test_start_time + duration_seconds
      /\ runner_stop_time[a] # 0
      /\ \A b \in Agents :
           runner_stop_time[b] # None => runner_stop_time[b] = runner_stop_time[a]

C2_Witness ==
  /\ num_agents = MaxFleet
  /\ \A a \in Agents : runner_stop_time[a] # None
  /\ test_start_time > 1

\* C3: the barrier has num_agents + 1 parties and releases at most once, only
\* when every runner thread and the orchestrating thread have arrived; no runner
\* passes it or sends a query before that; and once all have arrived, every
\* runner is eventually released.
C3_BarrierSafety ==
  /\ barrier_parties # 0 => barrier_parties = num_agents + 1
  /\ barrier_releases <= 1
  /\ barrier_releases = 1 => AllArrived
  /\ \A a \in Agents : (RunnerPassed(a) \/ sent[a] > 0) => AllArrived

\* C3: the safety part in every state, and all arrived leads to all released.
C3_Barrier == [](C3_BarrierSafety) /\ (AllArrived ~> AllReleased)

C3_Witness ==
  /\ num_agents = MaxFleet
  /\ AllReleased
  /\ barrier_releases = 1
  /\ \E a \in Agents : sent[a] > 0

\* C4 (as claimed): when connect_all_agents has finished, it has raised exactly
\* if some agent's connect() failed, and then failed_agents names exactly the
\* agents whose connect() did not succeed.
C4_ReportsFailure ==
  ConnectAllFinished =>
    /\ ConnectAllRaised <=> (\E a \in Agents : connect_ret[a] = "false")
    /\ ConnectAllRaised => FailedSet = {a \in Agents : connect_ret[a] = "false"}

\* C5 (as claimed): a runner thread is started, or a query sent, only if every
\* agent's connect() succeeded in the batch connector and every connection is
\* connected when start_test starts the threads.
C5_NoPartialFleet ==
  /\ (\E a \in Agents : rpc[a] # "unstarted" \/ sent[a] > 0) =>
       \A a \in Agents : connect_ret[a] = "true"
  /\ opc = "start_threads" => \A a \in Agents : connected[a]

\* C6: the agents are connected in consecutive batches of batch_conns (the last
\* possibly smaller), one connect() per agent, never more than batch_conns in
\* flight, and no attempt of a later batch starts before every attempt of the
\* earlier batches has finished.
C6_Batches ==
  /\ Cardinality(InFlight) <= batch_conns
  /\ \A a \in InFlight : BatchOf(a) = batch_start \div batch_conns
  /\ batch_start % batch_conns = 0
  /\ \A a \in Agents :
       /\ connect_calls[a] <= 1
       /\ connect_calls[a] = 1 <=> cthread[a] = "done"
  /\ \A a, b \in Agents :
       /\ (cthread[a] # "none" /\ BatchOf(b) < BatchOf(a)) => cthread[b] = "done"
       /\ (cthread[a] # "none" /\ b < a) => cthread[b] # "none"
  /\ ConnectAllFinished => \A a \in Agents : connect_calls[a] = 1

C6_Witness ==
  /\ num_agents = 5
  /\ batch_conns = 2
  /\ opc = "check_failed"
  /\ connected_count = 5
  /\ \E a \in Agents : connect_ret[a] = "false"

(* ------------------------------------------------------------------ *)
(* SyndrDBClient.execute as one call: what it returns and what it      *)
(* leaves in self.connected                                            *)
(* ------------------------------------------------------------------ *)

\* the JSON value a successful response decodes to, by what the session loop
\* does with it: an object whose Result is a list (one row), an object whose
\* Result is a JSON-encoded string, an object whose ExecutionTimeMS is not a
\* number, and a value that is not an object (list, string, number, null)
JsonResults == {"object_rows", "object_text", "object_badtime", "not_object"}

ErrNoReconnect == "Not connected and reconnect failed"
ErrNotConnected == "Not connected (auto-reconnect disabled)"
ErrTimeout == "Query timeout"
ErrConnectionLost == "Connection lost"
ErrProtocol == "Protocol error"
ExecuteErrors == {ErrNoReconnect, ErrNotConnected, ErrTimeout, ErrConnectionLost, ErrProtocol}

Outcome(ok, err, json, conn) ==
  [success |-> ok, error |-> err, json |-> json, connected |-> conn]

\* outcomes of the send/receive part of execute() on a connected client
RoundTripReturns ==
  {Outcome(TRUE, "", j, TRUE) : j \in JsonResults}
    \cup {Outcome(FALSE, ErrTimeout, "none", FALSE),
          Outcome(FALSE, ErrConnectionLost, "none", FALSE),
          Outcome(FALSE, ErrProtocol, "none", TRUE)}

\* execute(query) called with self.connected = c and allow_auto_reconnect = auto
ExecuteReturns(c, auto) ==
  IF c THEN RoundTripReturns
  ELSE IF auto
       THEN {Outcome(FALSE, ErrNoReconnect, "none", FALSE)} \cup RoundTripReturns
       ELSE {Outcome(FALSE, ErrNotConnected, "none", FALSE)}

(* ------------------------------------------------------------------ *)
(* BaseAgent.run_pregenerated_session                                  *)
(* ------------------------------------------------------------------ *)

QueryText(i) == <<"query", i>>
QueryList(n) == [i \in 1..n |-> QueryText(i)]

RunFrame == UNCHANGED <<orchVars, connVars, hsVars, lifeVars, healthVars, frameVars, lateVars>>

RunInit ==
  /\ pregenerated_queries \in {QueryList(n) : n \in 0..MaxQueries}
  /\ session_stop_time \in {None} \cup (0..MaxRunClock)
  /\ skip_connect \in BOOLEAN
  /\ think_time_zero \in BOOLEAN
  /\ allow_auto_reconnect \in BOOLEAN
  /\ db_connected \in (IF skip_connect THEN BOOLEAN ELSE {FALSE})
  /\ spc = "begin"
  /\ cycle_count = 0
  /\ total_queries_executed = 0
  /\ idx = 0
  /\ queries_executed = 0
  /\ successful_queries = 0
  /\ failed_queries = 0
  /\ errors = <<>>
  /\ transaction_counter = 0
  /\ execution_results = <<>>
  /\ session_start_time = 0
  /\ last_check = 0
  /\ disconnect_calls = 0
  /\ start_session_calls = 0
  /\ clock = 1

loopVars == <<cycle_count, total_queries_executed, idx>>
metricVars == <<queries_executed, successful_queries, failed_queries, errors,
                transaction_counter>>
sessionArgs == <<pregenerated_queries, session_stop_time, skip_connect, think_time_zero>>

\* lines 198-225: an empty list returns at once; otherwise start_session()
\* connects unless skip_connect, and the loop counters are set up
RunBegin ==
  /\ spc = "begin"
  /\ IF pregenerated_queries = <<>>
     THEN /\ spc' = "returned"
          /\ UNCHANGED <<db_connected, session_start_time, start_session_calls>>
     ELSE /\ spc' = "while_top"
          /\ session_start_time' = clock
          /\ IF skip_connect
             THEN UNCHANGED <<db_connected, start_session_calls>>
             ELSE /\ \E ok \in BOOLEAN : db_connected' = ok
                  /\ start_session_calls' = start_session_calls + 1
  /\ UNCHANGED <<allow_auto_reconnect, sessionArgs, loopVars, metricVars,
                 execution_results, last_check, disconnect_calls, clock>>
  /\ RunFrame

\* while True: cycle_count += 1; the for loop starts at index 0
WhileTop ==
  /\ spc = "while_top"
  /\ cycle_count' = cycle_count + 1
  /\ idx' = 0
  /\ spc' = "for_head"
  /\ UNCHANGED <<clientVars, sessionArgs, total_queries_executed, metricVars,
                 execution_results, session_start_time, last_check,
                 disconnect_calls,
                 start_session_calls, clock>>
  /\ RunFrame

\* stop_time is not None and time.time() >= stop_time
DeadlinePassedStrict(now) == session_stop_time # None /\ now > session_stop_time
DeadlinePassed(now) == session_stop_time # None /\ now >= session_stop_time

\* the head of the for loop: with a query left, the deadline check (lines
\* 236-243); with the list exhausted, the else clause (lines 294-303)
ForHead ==
  /\ spc = "for_head"
  /\ IF idx < Len(pregenerated_queries)
     THEN /\ last_check' = IF session_stop_time # None THEN clock ELSE last_check
          /\ spc' = IF DeadlinePassed(clock) THEN "end_session" ELSE "execute"
     ELSE /\ last_check' = IF session_stop_time # None THEN clock ELSE last_check
          /\ spc' = IF session_stop_time = None \/ DeadlinePassed(clock)
                    THEN "end_session" ELSE "while_top"
  /\ UNCHANGED <<clientVars, sessionArgs, loopVars, metricVars, execution_results,
                 session_start_time, disconnect_calls,
                 start_session_calls, clock>>
  /\ RunFrame

\* _execute_query raises while formatting a non-numeric ExecutionTimeMS
RaisesInExecuteQuery(out) == out.success /\ out.json = "object_badtime"
\* result_data.get("Result", []) raises on a result that is not an object
RaisesInRowCount(out) == out.success /\ out.json = "not_object"
\* row_count: len(Result) when the call succeeded and Result is a list
RowCount(out) == IF out.success /\ out.json = "object_rows" THEN 1 ELSE 0

\* execution_detail (lines 270-285)
ExecutionDetailByPosition(out, qi, cyc, pos, q, txn) ==
  [transaction_id |-> txn, query_index |-> pos, cycle |-> cyc,
   original_query_index |-> pos, statement |-> q,
   status |-> IF out.success THEN "success" ELSE "error",
   error_message |-> IF out.success THEN "" ELSE out.error,
   response_count |-> RowCount(out)]
ExecutionDetailNoMessage(out, qi, cyc, pos, q, txn) ==
  [transaction_id |-> txn, query_index |-> qi, cycle |-> cyc,
   original_query_index |-> pos, statement |-> q,
   status |-> IF out.success THEN "success" ELSE "error",
   error_message |-> "",
   response_count |-> RowCount(out)]
ExecutionDetail(out, qi, cyc, pos, q, txn) ==
  [transaction_id |-> txn, query_index |-> qi, cycle |-> cyc,
   original_query_index |-> pos, statement |-> q,
   status |-> IF out.success THEN "success" ELSE "error",
   error_message |-> IF out.success THEN "" ELSE out.error,
   response_count |-> RowCount(out)]

\* where the loop goes after the record is appended: the think time (skipped
\* for (0, 0)), then the next deadline check
AfterRecord == IF think_time_zero THEN "for_head" ELSE "think"

\* one query: _execute_query (counters, db_client.execute, errors), then the
\* record is built and appended (lines 245-287)
ExecuteQuery ==
  /\ spc = "execute"
  /\ queries_executed < MaxExec
  /\ \E out \in ExecuteReturns(db_connected, allow_auto_reconnect) :
       LET q == pregenerated_queries[idx + 1]
           txn == transaction_counter + 1
           tot == total_queries_executed + 1
       IN /\ queries_executed' = queries_executed + 1
          /\ transaction_counter' = txn
          /\ db_connected' = out.connected
          /\ successful_queries' = successful_queries + (IF out.success THEN 1 ELSE 0)
          /\ failed_queries' = failed_queries + (IF out.success THEN 0 ELSE 1)
          /\ errors' = IF out.success THEN errors
                       ELSE Append(errors, [query |-> q, error |-> out.error])
          /\ IF RaisesInExecuteQuery(out)
             THEN /\ spc' = "crashed"
                  /\ UNCHANGED <<total_queries_executed, execution_results, idx>>
             ELSE IF RaisesInRowCount(out)
             THEN /\ spc' = "crashed"
                  /\ total_queries_executed' = tot
                  /\ UNCHANGED <<execution_results, idx>>
             ELSE /\ total_queries_executed' = tot
                  /\ execution_results' =
                       Append(execution_results,
                              ExecutionDetail(out, tot, cycle_count, idx + 1, q, txn))
                  /\ idx' = idx + 1
                  /\ spc' = AfterRecord
  /\ UNCHANGED <<allow_auto_reconnect, sessionArgs, cycle_count, session_start_time,
                 last_check, disconnect_calls,
                 start_session_calls, clock>>
  /\ RunFrame

\* time.sleep(random.uniform(*think_time_range))
Think ==
  /\ spc = "think"
  /\ spc' = "for_head"
  /\ UNCHANGED <<clientVars, sessionArgs, loopVars, metricVars, execution_results,
                 session_start_time, last_check, disconnect_calls,
                 start_session_calls, clock>>
  /\ RunFrame

\* end_session(): db_client.disconnect()
EndSession ==
  /\ spc = "end_session"
  /\ db_connected' = FALSE
  /\ disconnect_calls' = disconnect_calls + 1
  /\ spc' = "done"
  /\ UNCHANGED <<allow_auto_reconnect, sessionArgs, loopVars, metricVars,
                 execution_results, session_start_time, last_check,
                 start_session_calls, clock>>
  /\ RunFrame

\* wall-clock time passes while the session runs
RunTick ==
  /\ clock < MaxRunClock
  /\ spc \notin {"done", "returned", "crashed"}
  /\ clock' = clock + 1
  /\ UNCHANGED <<clientVars, runVars>>
  /\ RunFrame

RunNext ==
  \/ RunBegin
  \/ WhileTop
  \/ ForHead
  \/ ExecuteQuery
  \/ Think
  \/ EndSession
  \/ RunTick

OrchIdle == OrchInit /\ num_agents = 1 /\ batch_conns = 1 /\ duration_seconds = 0

InitRun ==
  RunInit /\ OrchIdle /\ ConnIdle /\ HsIdle /\ LifeIdle /\ HealthIdle /\ FrameIdle /\ LateIdle

SpecRun == InitRun /\ [][RunNext]_vars

(* ------------------------------------------------------------------ *)
(* Properties of the session loop                                      *)
(* ------------------------------------------------------------------ *)

NumQueries == Len(pregenerated_queries)
RunEnded == spc \in {"done", "returned", "crashed"}

\* C7: a query is sent only when the deadline check just made read a clock
\* value below stop_time, and a session that starts at or after stop_time
\* sends no query and appends no record.
C7_SendOnlyBeforeDeadline ==
  queries_executed' # queries_executed =>
    (session_stop_time = None \/
       (last_check < session_stop_time /\ last_check >= session_start_time))

C7_PastDeadlineSendsNothing ==
  (session_stop_time # None /\ spc \notin {"begin", "returned"}
     /\ session_start_time >= session_stop_time) =>
    (queries_executed = 0 /\ execution_results = <<>>)

\* C7: both parts: no send after a deadline check that read now >= stop_time,
\* and nothing sent or recorded by a session that starts past its stop_time.
C7_DeadlineBeforeSend ==
  [](C7_PastDeadlineSendsNothing) /\ [][C7_SendOnlyBeforeDeadline]_vars

C7_Witness ==
  /\ session_stop_time # None
  /\ spc = "end_session"
  /\ queries_executed >= 2
  /\ last_check >= session_stop_time

\* C8 (as claimed): with L >= 1 queries the k-th record carries the query at
\* list position ((k-1) mod L)+1 and cycle ceil(k/L), and there are as many
\* records as queries sent.
C8_CyclesAndCount ==
  NumQueries >= 1 =>
    /\ Len(execution_results) = queries_executed
    /\ \A k \in 1..Len(execution_results) :
         /\ execution_results[k].original_query_index = ((k - 1) % NumQueries) + 1
         /\ execution_results[k].statement =
              pregenerated_queries[((k - 1) % NumQueries) + 1]
         /\ execution_results[k].cycle = ((k - 1) \div NumQueries) + 1

\* C9 (as claimed): without a stop_time the session, once over, has executed
\* each query of the list exactly once, in order, in one cycle.
C9_SinglePass ==
  (session_stop_time = None /\ RunEnded) =>
    /\ Len(execution_results) = NumQueries
    /\ queries_executed = NumQueries
    /\ cycle_count <= 1
    /\ \A k \in 1..Len(execution_results) :
         /\ execution_results[k].original_query_index = k
         /\ execution_results[k].statement = pregenerated_queries[k]
         /\ execution_results[k].cycle = 1

\* C10: a query whose execute() failed (any of the failure outcomes) appends a
\* record with status error and the outcome's error message, and the loop goes
\* on to the think time and the next deadline check as after a success.
C10_FailureStep ==
  failed_queries' # failed_queries =>
    /\ Len(execution_results') = Len(execution_results) + 1
    /\ execution_results'[Len(execution_results')].status = "error"
    /\ execution_results'[Len(execution_results')].error_message \in ExecuteErrors
    /\ execution_results'[Len(execution_results')].error_message =
         errors'[Len(errors')].error
    /\ execution_results'[Len(execution_results')].statement =
         pregenerated_queries[idx + 1]
    /\ spc' = AfterRecord
    /\ idx' = idx + 1

\* C10: every step in which a query fails is such a step.
C10_FailureGoesOn == [][C10_FailureStep]_vars

C10_Witness ==
  /\ Len(execution_results) = 3
  /\ execution_results[1].status = "error"
  /\ execution_results[1].error_message = ErrTimeout
  /\ execution_results[2].error_message = ErrNoReconnect
  /\ execution_results[3].status = "success"

\* C11 (as claimed): a session with a non-empty query list and a finite
\* stop_time, once over, has run to its deadline (its last deadline check read
\* a clock at or past stop_time) and has ended through end_session(), which
\* called disconnect() once, whatever execute() returned on the way.
C11_EndsAtDeadlineDisconnected ==
  (NumQueries >= 1 /\ session_stop_time # None /\ RunEnded) =>
    /\ spc = "done"
    /\ disconnect_calls = 1
    /\ last_check >= session_stop_time

\* C12 (as claimed): a session given an empty query list and skip_connect
\* false, once over, has connected once (start_session), has executed no
\* query and has disconnected once (end_session).
C12_EmptyListConnectsAndDisconnects ==
  (NumQueries = 0 /\ ~skip_connect /\ RunEnded) =>
    /\ start_session_calls = 1
    /\ queries_executed = 0
    /\ execution_results = <<>>
    /\ disconnect_calls = 1

(* ------------------------------------------------------------------ *)
(* SyndrDBClient.execute step by step, called by several threads       *)
(* ------------------------------------------------------------------ *)

ConnFrame ==
  UNCHANGED <<orchVars, runVars, clock, hsVars, lifeVars, healthVars, frameVars, lateVars>>

\* a client some time after construction: connected over an open socket, or
\* not connected with no socket (never connected, or a failed connect()), with
\* the socket of a timed out or lost connection, or with a closed socket
\* (after disconnect())
ClientStates ==
  {<<TRUE, "open">>, <<FALSE, "none">>, <<FALSE, "open">>, <<FALSE, "closed">>}

ConnInit ==
  /\ \E cs \in ClientStates : db_connected = cs[1] /\ sock = cs[2]
  /\ allow_auto_reconnect \in BOOLEAN
  /\ lock = 0
  /\ tpc = [t \in Threads |-> "idle"]
  /\ calls = [t \in Threads |-> 0]
  /\ returned = [t \in Threads |-> "none"]
  /\ response_data = "empty"
  /\ wire_pending = 0
  /\ peer_closed = FALSE
  /\ attempts = 0
  /\ caught = "none"

\* a thread calls execute(query)
CallExecute(t) ==
  /\ tpc[t] = "idle"
  /\ calls[t] < MaxCalls
  /\ calls' = [calls EXCEPT ![t] = @ + 1]
  /\ tpc' = [tpc EXCEPT ![t] = "acquire"]
  /\ UNCHANGED <<clientVars, lock, returned, response_data, wire_pending, peer_closed,
                 sock, attempts, caught>>
  /\ ConnFrame

\* with self._lock: the lock can be taken only when no thread holds it
LockFreeAlways == TRUE
LockFree == lock = 0

AcquireLock(t) ==
  /\ tpc[t] = "acquire"
  /\ LockFree
  /\ lock' = t
  /\ tpc' = [tpc EXCEPT ![t] = "check"]
  /\ attempts' = 0
  /\ caught' = "none"
  /\ UNCHANGED <<clientVars, calls, returned, response_data, wire_pending, peer_closed,
                 sock>>
  /\ ConnFrame

\* a return from inside the with block: the lock is released
Return(t, outcome) ==
  /\ returned' = [returned EXCEPT ![t] = outcome]
  /\ tpc' = [tpc EXCEPT ![t] = "idle"]
  /\ lock' = 0

\* if self.allow_auto_reconnect: (line 105)
MayReconnectAlways(auto) == TRUE
MayReconnect(auto) == auto

\* if not self.connect(): return {...} (lines 107-108): where the call goes
\* after the reconnect attempt
AfterReconnectIgnored(ok) == "send"
AfterReconnect(ok) == IF ok THEN "send" ELSE "return"

\* if not self.connected: reconnect once if allowed, else return NotConnected
\* (lines 103-110); connect() opens a fresh socket and, when it fails, closes
\* and drops it
CheckConnected(t) ==
  /\ tpc[t] = "check"
  /\ IF db_connected
     THEN /\ tpc' = [tpc EXCEPT ![t] = "send"]
          /\ UNCHANGED <<db_connected, lock, returned, wire_pending, peer_closed, sock,
                         attempts>>
     ELSE IF MayReconnect(allow_auto_reconnect)
     THEN \E ok \in BOOLEAN :
            /\ attempts' = attempts + 1
            /\ db_connected' = ok
            /\ sock' = IF ok THEN "open" ELSE "none"
            /\ IF ok
               THEN wire_pending' = 0 /\ peer_closed' = FALSE
               ELSE UNCHANGED <<wire_pending, peer_closed>>
            /\ IF AfterReconnect(ok) = "send"
               THEN /\ tpc' = [tpc EXCEPT ![t] = "send"]
                    /\ UNCHANGED <<lock, returned>>
               ELSE Return(t, ErrNoReconnect)
     ELSE /\ Return(t, ErrNotConnected)
          /\ UNCHANGED <<db_connected, wire_pending, peer_closed, sock, attempts>>
  /\ UNCHANGED <<allow_auto_reconnect, calls, response_data, caught>>
  /\ ConnFrame

\* what sendall and recv raise on a failing socket: socket.timeout and the
\* three connection errors of line 153
ConnectionErrors == {"ConnectionResetError", "BrokenPipeError", "ConnectionAbortedError"}
SocketRaises == {"timeout"} \cup ConnectionErrors

\* the error of the outcome by except branch (lines 145-167)
ExceptErrorLost(e) == IF e = "timeout" THEN ErrTimeout ELSE ErrConnectionLost
ExceptError(e) ==
  IF e = "timeout" THEN ErrTimeout
  ELSE IF e \in ConnectionErrors THEN ErrConnectionLost
  ELSE ErrProtocol

\* self.connected after the except branch: False after a timeout or a
\* connection error, untouched by the generic branch
ExceptConnectedKept(e, c) == c
ExceptConnected(e, c) == IF e = "timeout" \/ e \in ConnectionErrors THEN FALSE ELSE c

\* an exception caught by execute(): the branch's outcome is returned
Except(t, e) ==
  /\ caught' = e
  /\ db_connected' = ExceptConnected(e, db_connected)
  /\ Return(t, ExceptError(e))

\* self.socket.sendall(query_bytes): the request reaches the server (unless it
\* has closed the socket), or the send times out, or the connection is reset
SendQuery(t) ==
  /\ tpc[t] = "send"
  /\ \/ /\ wire_pending' = IF peer_closed THEN wire_pending ELSE wire_pending + 1
        /\ response_data' = "empty"
        /\ tpc' = [tpc EXCEPT ![t] = "recv"]
        /\ UNCHANGED <<db_connected, lock, returned, caught>>
     \/ /\ \E e \in SocketRaises : Except(t, e)
        /\ UNCHANGED <<wire_pending, response_data>>
  /\ UNCHANGED <<allow_auto_reconnect, calls, peer_closed, sock, attempts>>
  /\ ConnFrame

\* json.loads of what the receive loop kept: a whole line parses or not; bytes
\* cut short by the end of the stream may still parse; nothing at all never does
ParseReturns(data) ==
  IF data = "empty" THEN {ErrProtocol} ELSE {"success", ErrProtocol}

\* the return after json.loads: the success dict, or the generic except
\* branch with the json.JSONDecodeError
Parsed(t, r) ==
  IF r = "success"
  THEN Return(t, r) /\ UNCHANGED <<db_connected, caught>>
  ELSE Except(t, "JSONDecodeError")

\* chunk = self.socket.recv(4096) with bytes of the response but no newline yet
RecvPartial(t) ==
  /\ tpc[t] = "recv"
  /\ wire_pending > 0
  /\ response_data' = "partial"
  /\ UNCHANGED <<clientVars, lock, tpc, calls, returned, wire_pending, peer_closed,
                 sock, attempts, caught>>
  /\ ConnFrame

\* a chunk that brings the newline: the response is complete and is parsed
RecvLine(t) ==
  /\ tpc[t] = "recv"
  /\ wire_pending > 0
  /\ wire_pending' = wire_pending - 1
  /\ response_data' = "line"
  /\ \E r \in ParseReturns("line") : Parsed(t, r)
  /\ UNCHANGED <<allow_auto_reconnect, calls, peer_closed, sock, attempts>>
  /\ ConnFrame

\* an empty chunk: the server closed the stream; the loop breaks and what was
\* accumulated is parsed; self.connected is left as it is
RecvEof(t) ==
  /\ tpc[t] = "recv"
  /\ peer_closed
  /\ \E r \in ParseReturns(response_data) : Parsed(t, r)
  /\ UNCHANGED <<allow_auto_reconnect, calls, response_data, wire_pending, peer_closed,
                 sock, attempts>>
  /\ ConnFrame

\* recv raises socket.timeout or a connection error
RecvFails(t) ==
  /\ tpc[t] = "recv"
  /\ \E e \in SocketRaises : Except(t, e)
  /\ UNCHANGED <<allow_auto_reconnect, calls, response_data, wire_pending, peer_closed,
                 sock, attempts>>
  /\ ConnFrame

\* the server closes the connection; what it had not answered is never answered
ServerClose ==
  /\ db_connected
  /\ ~peer_closed
  /\ peer_closed' = TRUE
  /\ wire_pending' = 0
  /\ UNCHANGED <<clientVars, lock, tpc, calls, returned, response_data, sock,
                 attempts, caught>>
  /\ ConnFrame

ConnNext ==
  \/ \E t \in Threads : CallExecute(t)
  \/ \E t \in Threads : AcquireLock(t)
  \/ \E t \in Threads : CheckConnected(t)
  \/ \E t \in Threads : SendQuery(t)
  \/ \E t \in Threads : RecvPartial(t)
  \/ \E t \in Threads : RecvLine(t)
  \/ \E t \in Threads : RecvEof(t)
  \/ \E t \in Threads : RecvFails(t)
  \/ ServerClose

InitConn ==
  /\ ConnInit /\ OrchIdle /\ RunIdle /\ HsIdle /\ LifeIdle /\ HealthIdle
  /\ FrameIdle /\ LateIdle /\ clock = 1

SpecConn == InitConn /\ [][ConnNext]_vars

(* ------------------------------------------------------------------ *)
(* Properties of execute() under concurrent callers                    *)
(* ------------------------------------------------------------------ *)

InExecute(t) == tpc[t] \in {"check", "send", "recv"}

\* C1: at most one execute() call is inside the locked send/receive section,
\* the server never holds more than one unanswered request of the connection,
\* and a request is sent only when no other call is sending or receiving and
\* every earlier request on the socket has been answered in full.
C1_OneInSection ==
  /\ Cardinality({t \in Threads : InExecute(t)}) <= 1
  /\ \A t \in Threads : InExecute(t) => lock = t
  /\ wire_pending <= 1

C1_SendStep ==
  \A t \in Threads :
    (tpc[t] = "send" /\ tpc'[t] = "recv") =>
      /\ wire_pending = 0
      /\ \A u \in Threads \ {t} : ~InExecute(u)

\* C1: one call in the section and one unanswered request at most, in every
\* state, and every send happens with no other call sending or receiving.
C1_OneOutstanding == [](C1_OneInSection) /\ [][C1_SendStep]_vars

C1_Witness ==
  /\ tpc[1] = "recv"
  /\ tpc[2] = "acquire"
  /\ calls[1] = 2
  /\ returned[2] = "success"
  /\ wire_pending = 1

(* ------------------------------------------------------------------ *)
(* SyndrDBClient.connect step by step: the handshake                   *)
(* ------------------------------------------------------------------ *)

MaxWelcome == 2

\* bytes of the handshake: the newline, whitespace, a letter of the welcome
\* text, and the pieces of a JSON text: braces, the member "status": "error"
\* (E), the member "status": "ok" (K) and a number literal (0)
NL == "NL"

RECURSIVE SeqsUpTo(_, _)
SeqsUpTo(S, n) ==
  IF n = 0 THEN {<<>>}
  ELSE LET shorter == SeqsUpTo(S, n - 1)
       IN shorter \cup {Append(q, x) : q \in shorter, x \in S}

WelcomeLines == SeqsUpTo({"w", "sp"}, MaxWelcome)

AuthLines ==
  {<<"{", "}">>, <<"{", "E", "}">>, <<"{", "K", "}">>, <<"sp", "{", "K", "}">>,
   <<"0">>, <<"{", "E">>, <<>>}

\* what the server may send after the two lines of the handshake
Trailers == {<<>>, <<"{", "}", NL>>}

Prefixes(q) == {SubSeq(q, 1, n) : n \in 0..Len(q)}

\* the server sends the welcome line and the auth line, each ended by a
\* newline, or stops somewhere before the end
Streams ==
  UNION {Prefixes(w \o <<NL>> \o a \o <<NL>> \o x) :
           w \in WelcomeLines, a \in AuthLines, x \in Trailers}

\* str.strip()
RECURSIVE StripLeft(_)
StripLeft(q) == IF q # <<>> /\ Head(q) = "sp" THEN StripLeft(Tail(q)) ELSE q
RECURSIVE StripRight(_)
StripRight(q) ==
  IF q # <<>> /\ q[Len(q)] = "sp" THEN StripRight(SubSeq(q, 1, Len(q) - 1)) ELSE q
Strip(q) == StripRight(StripLeft(q))

\* json.loads(line_str), by the kind of value it returns; "invalid" stands for
\* json.JSONDecodeError
json_loads(line_str) ==
  LET text == SelectSeq(line_str, LAMBDA b : b # "sp")
  IN CASE text = <<"{", "}">> -> "object_no_status"
       [] text = <<"{", "E", "}">> -> "object_status_error"
       [] text = <<"{", "K", "}">> -> "object_status_ok"
       [] text = <<"0">> -> "not_object"
       [] OTHER -> "invalid"

\* auth_msg.get("status") == "error"
AuthStatusIgnored(msg) == FALSE
AuthStatusIsError(msg) == msg = "object_status_error"

\* buffer.find(b'\n'): 1-based position of the first newline from i on, or 0
RECURSIVE FirstNewline(_, _)
FirstNewline(buf, i) ==
  IF i > Len(buf) THEN 0
  ELSE IF buf[i] = NL THEN i ELSE FirstNewline(buf, i + 1)

\* line, buffer = buffer.split(b'\n', 1): what stays in the buffer
RestDropped(buf, n) == <<>>
Rest(buf, n) == SubSeq(buf, n + 1, Len(buf))

HsLocals(buf, w, a, exc) ==
  [buffer |-> buf, welcome_msg |-> w, auth_msg |-> a, raised |-> exc]

\* while b'\n' in buffer: ... (lines 58-75): the first line is the welcome, the
\* second is decoded as the auth response, further lines are dropped
RECURSIVE ProcessLines(_, _, _)
ProcessLines(buf, w, a) ==
  LET n == FirstNewline(buf, 1)
      line_str == Strip(SubSeq(buf, 1, n - 1))
      rest == Rest(buf, n)
      msg == json_loads(line_str)
  IN IF n = 0 THEN HsLocals(buf, w, a, "none")
     ELSE IF w = <<>> THEN ProcessLines(rest, <<line_str>>, a)
     ELSE IF a = <<>>
     THEN IF msg = "invalid" THEN HsLocals(rest, w, a, "Invalid auth response")
          ELSE IF msg = "not_object" THEN HsLocals(rest, w, <<msg>>, "AttributeError")
          ELSE IF AuthStatusIsError(msg)
          THEN HsLocals(rest, w, <<msg>>, "Authentication failed")
          ELSE ProcessLines(rest, w, <<msg>>)
     ELSE ProcessLines(rest, w, a)

HsFrame == UNCHANGED <<orchVars, clock, allow_auto_reconnect, runVars, lock, tpc,
                       calls, returned, response_data, wire_pending, peer_closed,
                       attempts, caught, lifeVars, healthVars, frameVars, lateVars>>

\* self.connected after a failed connect()
FailedConnectedKept(c) == c
FailedConnected(c) == FALSE

\* the except branches (lines 81-98): connected = False, the socket is closed
\* and dropped, False is returned
ConnectFails(exc) ==
  /\ db_connected' = FailedConnected(db_connected)
  /\ opened' = "closed"
  /\ sock' = "none"
  /\ connect_returned' = "false"
  /\ connect_error' = exc
  /\ hpc' = "returned"

\* socket.socket(), settimeout, connect((host, port))
HsOpen ==
  /\ hpc = "call"
  /\ \/ /\ opened' = "open"
        /\ sock' = "open"
        /\ hpc' = "send"
        /\ UNCHANGED <<db_connected, connect_returned, connect_error>>
     \/ \E exc \in {"timeout", "ConnectionRefusedError"} : ConnectFails(exc)
  /\ UNCHANGED <<stream, stream_pos, reads, buffer, welcome_msg, auth_msg>>
  /\ HsFrame

\* self.socket.sendall(conn_str)
HsSend ==
  /\ hpc = "send"
  /\ \/ /\ hpc' = "recv"
        /\ UNCHANGED <<db_connected, sock, opened, connect_returned, connect_error>>
     \/ \E exc \in {"timeout", "ConnectionResetError"} : ConnectFails(exc)
  /\ UNCHANGED <<stream, stream_pos, reads, buffer, welcome_msg, auth_msg>>
  /\ HsFrame

\* one turn of the while loop (lines 51-75): recv returns some of the bytes
\* the server has yet to deliver and the complete lines of the buffer are
\* processed; the loop ends with both messages set (lines 77-79)
HsRecvChunk ==
  /\ hpc = "recv"
  /\ \E k \in 1..(Len(stream) - stream_pos) :
       LET chunk == SubSeq(stream, stream_pos + 1, stream_pos + k)
           r == ProcessLines(buffer \o chunk, welcome_msg, auth_msg)
       IN /\ stream_pos' = stream_pos + k
          /\ reads' = reads + 1
          /\ buffer' = r.buffer
          /\ welcome_msg' = r.welcome_msg
          /\ auth_msg' = r.auth_msg
          /\ IF r.raised # "none" THEN ConnectFails(r.raised)
             ELSE IF r.welcome_msg # <<>> /\ r.auth_msg # <<>>
             THEN /\ db_connected' = TRUE
                  /\ connect_returned' = "true"
                  /\ hpc' = "returned"
                  /\ UNCHANGED <<sock, opened, connect_error>>
             ELSE UNCHANGED <<db_connected, sock, opened, connect_returned,
                              connect_error, hpc>>
  /\ UNCHANGED stream
  /\ HsFrame

\* recv returns b'' once the server has sent everything and closed: raise
\* Exception("Connection closed before receiving all responses")
HsRecvClosed ==
  /\ hpc = "recv"
  /\ stream_pos = Len(stream)
  /\ ConnectFails("Connection closed")
  /\ UNCHANGED <<stream, stream_pos, reads, buffer, welcome_msg, auth_msg>>
  /\ HsFrame

\* recv raises: no byte within the timeout, or the connection is reset
HsRecvRaises ==
  /\ hpc = "recv"
  /\ \E exc \in {"timeout", "ConnectionResetError"} : ConnectFails(exc)
  /\ UNCHANGED <<stream, stream_pos, reads, buffer, welcome_msg, auth_msg>>
  /\ HsFrame

HsNext ==
  \/ HsOpen
  \/ HsSend
  \/ HsRecvChunk
  \/ HsRecvClosed
  \/ HsRecvRaises

InitHandshake ==
  /\ OrchIdle /\ RunIdle /\ LifeIdle /\ HealthIdle /\ FrameIdle /\ LateIdle /\ clock = 1
  /\ \E cs \in ClientStates : db_connected = cs[1] /\ sock = cs[2]
  /\ allow_auto_reconnect = TRUE
  /\ lock = 0
  /\ tpc = [t \in Threads |-> "idle"]
  /\ calls = [t \in Threads |-> 0]
  /\ returned = [t \in Threads |-> "none"]
  /\ response_data = "empty"
  /\ wire_pending = 0
  /\ peer_closed = FALSE
  /\ attempts = 0
  /\ caught = "none"
  /\ hpc = "call"
  /\ opened = "none"
  /\ stream \in Streams
  /\ stream_pos = 0
  /\ reads = 0
  /\ buffer = <<>>
  /\ welcome_msg = <<>>
  /\ auth_msg = <<>>
  /\ connect_returned = "none"
  /\ connect_error = "none"

SpecHandshake == InitHandshake /\ [][HsNext]_vars

(* ------------------------------------------------------------------ *)
(* Properties of connect()                                             *)
(* ------------------------------------------------------------------ *)

HsReturned == hpc = "returned"

\* C13: when connect() has failed (refused or reset connection, timeout,
\* stream closed early, invalid auth payload, authentication error) the socket
\* it opened is closed, self.socket is dropped, connected is false and False
\* was returned; connected is true after connect() only if it returned True.
C13_FailureClosesSocket ==
  /\ (HsReturned /\ connect_error # "none") => connect_returned = "false"
  /\ (HsReturned /\ connect_returned = "false") =>
       (opened # "open" /\ sock = "none" /\ ~db_connected)
  /\ (HsReturned /\ db_connected) => connect_returned = "true"

C13_Witness ==
  /\ HsReturned
  /\ connect_error = "Connection closed"
  /\ welcome_msg # <<>>
  /\ buffer # <<>>
  /\ opened = "closed"
  /\ ~db_connected

\* the complete (newline-terminated) lines of a byte stream, in order
RECURSIVE CompleteLines(_)
CompleteLines(q) ==
  LET n == FirstNewline(q, 1)
  IN IF n = 0 THEN <<>>
     ELSE <<SubSeq(q, 1, n - 1)>> \o CompleteLines(SubSeq(q, n + 1, Len(q)))

\* exceptions raised by the socket calls of connect()
SocketErrors == {"timeout", "ConnectionRefusedError", "ConnectionResetError"}

\* the handshake was not cut short by a socket error and the server sent two lines
HsTwoLines == HsReturned /\ connect_error \notin SocketErrors /\ Len(CompleteLines(stream)) >= 2

\* C14: connect() decides on the second line of the stream: an object whose
\* status is "error" fails it as an authentication failure, a line that is
\* not valid JSON (or not a JSON object) fails it, and an object with any
\* other status, or with none, makes it succeed.
C14_SecondLineDecides ==
  HsTwoLines =>
    LET msg == json_loads(Strip(CompleteLines(stream)[2]))
    IN /\ msg = "object_status_error" =>
            (connect_returned = "false" /\ connect_error = "Authentication failed")
       /\ msg = "invalid" =>
            (connect_returned = "false" /\ connect_error = "Invalid auth response"
               /\ opened = "closed")
       /\ msg = "not_object" => connect_returned = "false"
       /\ msg \in {"object_status_ok", "object_no_status"} =>
            (connect_returned = "true" /\ connect_error = "none" /\ db_connected
               /\ auth_msg = <<msg>>)

C14_Witness ==
  /\ HsTwoLines
  /\ connect_error = "Authentication failed"
  /\ auth_msg = <<"object_status_error">>
  /\ welcome_msg = << <<"w">> >>
  /\ connect_returned = "false"

\* what connect() makes of a stream that no socket error cuts short, worked out
\* from the stream as a whole: the first line, the decoded second line, the
\* value returned and the exception logged
ExpectedHandshake(q) ==
  LET lines == CompleteLines(q)
      msg == json_loads(Strip(lines[2]))
  IN IF Len(lines) < 2
     THEN [welcome_msg |-> IF Len(lines) = 1 THEN <<Strip(lines[1])>> ELSE <<>>,
           auth_msg |-> <<>>, returned |-> "false", error |-> "Connection closed"]
     ELSE [welcome_msg |-> <<Strip(lines[1])>>,
           auth_msg |-> IF msg = "invalid" THEN <<>> ELSE <<msg>>,
           returned |-> IF msg \in {"object_status_ok", "object_no_status"}
                        THEN "true" ELSE "false",
           error |-> CASE msg = "invalid" -> "Invalid auth response"
                       [] msg = "not_object" -> "AttributeError"
                       [] msg = "object_status_error" -> "Authentication failed"
                       [] OTHER -> "none"]

\* C15: whatever way recv() splits the server's bytes into chunks, connect()
\* ends with the welcome message, the auth message and the success or failure
\* that the stream as a whole determines.
C15_SplitIndependent ==
  (HsReturned /\ connect_error \notin SocketErrors) =>
    /\ welcome_msg = ExpectedHandshake(stream).welcome_msg
    /\ auth_msg = ExpectedHandshake(stream).auth_msg
    /\ connect_returned = ExpectedHandshake(stream).returned
    /\ connect_error = ExpectedHandshake(stream).error

\* both lines arrived in a single read
C15_Witness ==
  /\ HsReturned
  /\ reads = 1
  /\ connect_returned = "true"
  /\ welcome_msg = << <<"w", "w">> >>
  /\ auth_msg = <<"object_status_ok">>
  /\ buffer = <<"{">>

(* ------------------------------------------------------------------ *)
(* Properties of the outcomes of execute()                             *)
(* ------------------------------------------------------------------ *)

\* thread t returns from the receive loop of execute() in this step
LeavesRecv(t) == tpc[t] = "recv" /\ tpc'[t] = "idle"

C16_EofStep ==
  \A t \in Threads :
    LeavesRecv(t) =>
      /\ returned'[t] = "success" => response_data' = "line"
      /\ (peer_closed /\ response_data' # "line" /\ returned'[t] # ErrTimeout) =>
           returned'[t] = ErrConnectionLost

\* C16 (as claimed): execute() returns success only from a response that ended
\* with a newline, and a stream closed before the newline is reported as a
\* lost connection.
C16_NoSuccessFromUnterminated == [][C16_EofStep]_vars

\* thread t passes the connected check of execute() in this step
LeavesCheck(t) == tpc[t] = "check" /\ tpc'[t] # "check"

C17_Step ==
  \A t \in Threads :
    (LeavesCheck(t) /\ ~db_connected /\ ~allow_auto_reconnect) =>
      /\ tpc'[t] = "idle"
      /\ returned'[t] = ErrNotConnected
      /\ attempts' = 0
      /\ caught' = "none"
      /\ UNCHANGED <<db_connected, sock, wire_pending, peer_closed, response_data>>

\* C17: with the client not connected and auto-reconnect disabled, execute()
\* returns the NotConnected failure straight from the connected check: no
\* connect() attempt, nothing sent or received, connected and the socket as
\* they were.
C17_NotConnectedNoIO == [][C17_Step]_vars

C17_Witness ==
  /\ ~allow_auto_reconnect
  /\ ~db_connected
  /\ sock = "open"
  /\ returned[1] = ErrNotConnected
  /\ returned[2] = ErrNotConnected
  /\ calls[1] = 2
  /\ attempts = 0

C18_Step ==
  /\ \A t \in Threads :
       /\ (LeavesCheck(t) /\ ~db_connected /\ allow_auto_reconnect) =>
            /\ attempts = 0
            /\ attempts' = 1
            /\ \/ /\ ~db_connected'
                  /\ tpc'[t] = "idle"
                  /\ returned'[t] = ErrNoReconnect
                  /\ sock' = "none"
                  /\ UNCHANGED <<wire_pending, peer_closed, response_data>>
               \/ /\ db_connected'
                  /\ tpc'[t] = "send"
                  /\ sock' = "open"
                  /\ wire_pending' = 0
                  /\ ~peer_closed'
       /\ (tpc[t] = "send" /\ tpc'[t] = "recv") => (db_connected /\ sock = "open")
  /\ attempts' > attempts => \E t \in Threads : LeavesCheck(t)

\* C18: with the client not connected and auto-reconnect enabled, execute()
\* calls connect() exactly once; when it fails the call returns the
\* NotConnected failure and nothing is sent, when it succeeds the call goes on
\* to send the query on the socket connect() opened.
C18_OneReconnect == [](attempts <= 1) /\ [][C18_Step]_vars

C18_Witness ==
  /\ returned[2] = ErrNoReconnect
  /\ tpc[1] = "recv"
  /\ attempts = 1
  /\ wire_pending = 1
  /\ db_connected
  /\ sock = "open"

\* thread t returns from the send or the receive of execute() in this step
LeavesRoundTrip(t) == tpc[t] \in {"send", "recv"} /\ tpc'[t] = "idle"

C19_Step ==
  \A t \in Threads :
    (LeavesRoundTrip(t) /\ caught' \in SocketRaises) =>
      /\ ~db_connected'
      /\ caught' = "timeout" => returned'[t] = ErrTimeout
      /\ caught' \in ConnectionErrors => returned'[t] = ErrConnectionLost
      /\ returned'[t] \in {ErrTimeout, ErrConnectionLost}

\* C19: a socket timeout, reset, broken pipe or abort raised by the send or
\* the receive of execute() leaves connected false and returns a failure whose
\* error is Timeout for the timeout and ConnectionLost for the other three.
C19_SocketFailureDisconnects == [][C19_Step]_vars

C19_Witness ==
  /\ caught = "BrokenPipeError"
  /\ returned[1] = ErrConnectionLost
  /\ returned[2] = ErrTimeout
  /\ response_data = "partial"
  /\ ~db_connected
  /\ sock = "open"

C20_Step ==
  \A t \in Threads :
    LeavesRoundTrip(t) =>
      /\ caught' = "JSONDecodeError" =>
           (returned'[t] = ErrProtocol /\ UNCHANGED <<db_connected, sock>>)
      /\ returned'[t] = "success" =>
           (db_connected' /\ caught' = "none" /\ UNCHANGED <<db_connected, sock>>)

\* C20: an execute() ended by a decode failure (not a timeout, not a lost
\* connection) returns a ProtocolError outcome and leaves connected and the
\* socket as they were, and an execute() that returns success leaves the
\* client connected.
C20_DecodeFailureKeepsState == [][C20_Step]_vars

C20_Witness ==
  /\ caught = "JSONDecodeError"
  /\ returned[1] = ErrProtocol
  /\ returned[2] = "success"
  /\ response_data = "line"
  /\ db_connected
  /\ tpc[1] = "idle"
  /\ calls[2] = 1

(* ================================================================== *)
(* SpecLife: connect(), execute() and disconnect() calls made one      *)
(* after another on one SyndrDBClient (tools/syndrdb_client.py).       *)
(* The handshake inside connect() is SpecHandshake's subject; here a   *)
(* connect() call is one step that succeeds or fails.                  *)
(* ================================================================== *)
MaxLifeCalls == 5

LifeFrame == UNCHANGED <<orchVars, clock, allow_auto_reconnect, runVars, lock, tpc,
                         calls, returned, response_data, wire_pending, peer_closed,
                         attempts, caught, hsVars, healthVars, frameVars, lateVars>>

\* a socket the client held and dropped without closing it stays open
Dropped(s) == IF s = "open" THEN 1 ELSE 0

\* connect(): line 36 stores a new socket over self.socket; success sets
\* self.connected (77-79), failure closes the new socket and stores None
\* nothing closes the socket that line 36 replaces; whether the interpreter
\* finalises the dropped object, and so closes it, is left to the build
ConnectEffect(ok) ==
  /\ \E finalised \in BOOLEAN :
       stale_open' = stale_open + IF finalised THEN 0 ELSE Dropped(sock)
  /\ db_connected' = ok
  /\ sock' = IF ok THEN "open" ELSE "none"

LifeConnect ==
  /\ life_calls < MaxLifeCalls
  /\ \E ok \in BOOLEAN : ConnectEffect(ok)
  /\ life_calls' = life_calls + 1
  /\ last_op' = "connect"
  /\ alternating' = (alternating /\ last_op \in {"none", "disconnect"})
  /\ UNCHANGED <<close_raised, disconnect_result>>
  /\ LifeFrame

\* execute(): a connected client makes the round trip, which succeeds or
\* fails on the socket; a client that is not connected calls connect()
LifeExecute ==
  /\ life_calls < MaxLifeCalls
  /\ IF db_connected
     THEN /\ \E e \in SocketRaises \cup {"none"} :
               db_connected' = IF e = "none" THEN db_connected
                               ELSE ExceptConnected(e, db_connected)
          /\ UNCHANGED <<sock, stale_open>>
     ELSE \E ok \in BOOLEAN : ConnectEffect(ok)
  /\ life_calls' = life_calls + 1
  /\ last_op' = "execute"
  /\ alternating' = FALSE
  /\ UNCHANGED <<close_raised, disconnect_result>>
  /\ LifeFrame

\* self.socket after disconnect(): close() is called on whatever socket
\* the client holds, an already closed one included (lines 171-175)
SocketKept(s) == s
SocketClosed(s) == IF s = "none" THEN "none" ELSE "closed"

\* self.connected after disconnect() (line 176)
DisconnectConnectedKept(c) == c
DisconnectConnected(c) == FALSE

\* the bare except of lines 174-175 swallows whatever close() raises
DisconnectResult(raises) == "returned"

Disconnect ==
  /\ life_calls < MaxLifeCalls
  /\ \E raises \in BOOLEAN :
       /\ close_raised' = (sock # "none" /\ raises)
       /\ disconnect_result' = DisconnectResult(sock # "none" /\ raises)
  /\ sock' = SocketClosed(sock)
  /\ db_connected' = DisconnectConnected(db_connected)
  /\ life_calls' = life_calls + 1
  /\ last_op' = "disconnect"
  /\ alternating' = (alternating /\ last_op = "connect")
  /\ UNCHANGED stale_open
  /\ LifeFrame

LifeNext ==
  \/ LifeConnect
  \/ LifeExecute
  \/ Disconnect

InitLife ==
  /\ OrchIdle /\ RunIdle /\ ConnIdle /\ HsIdle /\ LifeIdle /\ HealthIdle
  /\ FrameIdle /\ LateIdle /\ ClientIdle /\ clock = 1

SpecLife == InitLife /\ [][LifeNext]_vars

\* the step is a disconnect() call
DisconnectStep == last_op' = "disconnect" /\ life_calls' = life_calls + 1

\* C21: disconnect() is safe in every state and idempotent: whatever the
\* client's state, the call returns without raising and leaves connected
\* false and the client's socket, if it has one, closed; a disconnect()
\* right after a disconnect() changes nothing of the client.
C21_Step ==
  DisconnectStep =>
    /\ disconnect_result' = "returned"
    /\ ~db_connected'
    /\ sock' # "open"
    /\ (sock = "none") = (sock' = "none")
    /\ last_op = "disconnect" => UNCHANGED <<db_connected, sock, stale_open>>
C21_DisconnectIdempotent == [][C21_Step]_vars

\* disconnect() was called on a connected client whose close() raised, and
\* then called again
C21_Witness ==
  /\ last_op = "disconnect" /\ close_raised /\ sock = "closed"
  /\ life_calls = 3 /\ stale_open = 0 /\ ~alternating

\* C22: after connect() followed at once by disconnect() the client is not
\* connected and holds no open socket, and after any number of such
\* cycles no socket the client opened is still open.
C22_CyclesReleaseSockets ==
  (alternating /\ last_op = "disconnect") =>
    /\ ~db_connected
    /\ sock # "open"
    /\ stale_open = 0

\* two full connect()/disconnect() cycles
C22_Witness ==
  alternating /\ last_op = "disconnect" /\ life_calls = 4 /\ sock = "closed"

(* ================================================================== *)
(* SpecHealth: record_query, check_connection, collect_metrics,       *)
(* is_healthy and reset called one after another on one HealthMonitor  *)
(* (conductor/health_monitor.py).  Latencies are counted in 1/1000 ms  *)
(* and rates in 1/100 percent, so that round(x, 2) is a real rounding. *)
(* The i-th recorded query has latency Latency(i) and fails when       *)
(* i <= fail_count; both inputs are chosen when the monitor is built.  *)
(* ================================================================== *)
WindowLen == 100
ChecksLen == 20
MaxRecords == 103
MaxProbes == 3

FailCounts == {0, 11}
LatBases == {1004, 4899996}

HealthFrame == UNCHANGED <<orchVars, clock, clientVars, runVars, connVars, hsVars,
                           lifeVars, fail_count, lat_base, recorderVars, frameVars, lateVars>>

\* the arguments of the i-th record_query call
Latency(i) == lat_base + 1000 * ((i * 37) % 101)
Succeeds(i) == i > fail_count

\* deque.append on a deque built with maxlen: a full deque drops its oldest
DequeAppendKeepsOldest(d, x, maxlen) == IF Len(d) < maxlen THEN Append(d, x) ELSE d
DequeAppend(d, x, maxlen) ==
  IF Len(d) < maxlen THEN Append(d, x) ELSE Append(Tail(d), x)

\* 1 if success else 0
Flag(success) == IF success THEN 1 ELSE 0

RecordQuery ==
  /\ record_calls < MaxRecords
  /\ LET latency_ms == Latency(record_calls + 1)
         success == Succeeds(record_calls + 1)
     IN  /\ query_times' = DequeAppend(query_times, latency_ms, WindowLen)
         /\ query_success' = DequeAppend(query_success, Flag(success), WindowLen)
         /\ total_queries' = total_queries + 1
         /\ IF success
            THEN total_successful' = total_successful + 1 /\ UNCHANGED total_failed
            ELSE total_failed' = total_failed + 1 /\ UNCHANGED total_successful
  /\ record_calls' = record_calls + 1
  /\ metrics' = <<>> /\ healthy' = <<>>
  /\ UNCHANGED connection_checks
  /\ HealthFrame

\* check_connection: the probe query succeeds, fails or raises
CheckConnection ==
  /\ Len(connection_checks) < MaxProbes
  /\ \E success \in BOOLEAN :
       connection_checks' = DequeAppend(connection_checks, Flag(success), ChecksLen)
  /\ metrics' = <<>> /\ healthy' = <<>>
  /\ UNCHANGED <<query_times, query_success, total_queries, total_successful,
                 total_failed, record_calls>>
  /\ HealthFrame

RECURSIVE Sum(_)
Sum(s) == IF s = <<>> THEN 0 ELSE Head(s) + Sum(Tail(s))

\* sorted(self.query_times)
Sorted(s) == SortSeq(s, LAMBDA a, b : a < b)

\* round(a / b) to the nearest integer, ties to the even one
RoundHalfEven(a, b) ==
  LET q == a \div b
      r == a % b
  IN  IF 2 * r < b THEN q
      ELSE IF 2 * r > b THEN q + 1
      ELSE IF q % 2 = 0 THEN q ELSE q + 1

\* round(x, 2) of a value in 1/1000 ms
Round2(x) == 10 * RoundHalfEven(x, 10)

\* int(n * 0.50), int(n * 0.95), int(n * 0.99): for n up to 100 the float
\* product truncates to the same integer as the exact one
PercentileIndex(n, q) == (n * q) \div 100

\* lines 71-73: the element at the index when n > least, else 0
Percentile(sorted_times, q, least) ==
  IF Len(sorted_times) > least
  THEN sorted_times[PercentileIndex(Len(sorted_times), q) + 1]
  ELSE 0

\* what collect_metrics computes: the locals p50, p95, p99 and the entries
\* of the returned dict that is_healthy reads
Metrics ==
  LET sorted_times == Sorted(query_times) IN
  [ n |-> Len(sorted_times),
    p50 |-> Percentile(sorted_times, 50, 0),
    p95 |-> Percentile(sorted_times, 95, 1),
    p99 |-> Percentile(sorted_times, 99, 2),
    p99_ms |-> Round2(Percentile(sorted_times, 99, 2)),
    recent_100 |-> IF query_success # <<>>
                   THEN RoundHalfEven(Sum(query_success) * 10000, Len(query_success))
                   ELSE 0,
    responsive |-> /\ connection_checks # <<>>
                   /\ Sum(connection_checks) * 100 > 50 * Len(connection_checks) ]

CollectMetrics ==
  /\ metrics' = <<Metrics>>
  /\ UNCHANGED <<monitorVars, healthy>>
  /\ HealthFrame

\* lines 148-155
HealthyOf(m) ==
  /\ m.responsive
  /\ m.recent_100 > 90 * 100
  /\ m.p99_ms < 5000 * 1000

IsHealthy ==
  /\ healthy' = <<HealthyOf(Metrics)>>
  /\ UNCHANGED <<monitorVars, metrics>>
  /\ HealthFrame

\* reset: the windows and the counters start again
Reset ==
  /\ record_calls > 0 \/ connection_checks # <<>>
  /\ query_times' = <<>>
  /\ query_success' = <<>>
  /\ connection_checks' = <<>>
  /\ total_queries' = 0
  /\ total_successful' = 0
  /\ total_failed' = 0
  /\ record_calls' = 0
  /\ metrics' = <<>> /\ healthy' = <<>>
  /\ HealthFrame

HealthNext ==
  \/ RecordQuery
  \/ CheckConnection
  \/ CollectMetrics
  \/ IsHealthy
  \/ Reset

InitHealth ==
  /\ OrchIdle /\ RunIdle /\ ConnIdle /\ HsIdle /\ LifeIdle /\ FrameIdle /\ LateIdle
  /\ ClientIdle /\ clock = 1
  /\ MonitorIdle /\ RecorderIdle
  /\ fail_count \in FailCounts
  /\ lat_base \in LatBases

SpecHealth == InitHealth /\ [][HealthNext]_vars

(* ------------------------------------------------------------------ *)
(* Properties of the health monitor                                    *)
(* ------------------------------------------------------------------ *)
\* the rolling success rate is above 90 percent
SuccessRateAbove90 ==
  /\ query_success # <<>>
  /\ Sum(query_success) * 100 > 90 * Len(query_success)

\* the element at index floor(q * n / 100) of the sorted window
NearestRank(q) ==
  IF query_times = <<>> THEN 0
  ELSE Sorted(query_times)[PercentileIndex(Len(query_times), q) + 1]

\* the latest check_connection call found the server responsive
LastProbeSucceeded ==
  /\ connection_checks # <<>>
  /\ connection_checks[Len(connection_checks)] = 1

\* C23: is_healthy() is true exactly when the rolling success rate is above
\* 90 percent, the p99 latency is below 5000 ms and the last liveness
\* probe succeeded.
C23_HealthyIff ==
  healthy # <<>> =>
    healthy[1] = (/\ SuccessRateAbove90
                  /\ NearestRank(99) < 5000 * 1000
                  /\ LastProbeSucceeded)

\* the number of samples a window holds after record_calls calls
Held == IF record_calls < WindowLen THEN record_calls ELSE WindowLen

\* C28: after k record_query calls both windows hold the latest
\* min(k, 100) samples, oldest first, and
\* total_queries = total_successful + total_failed = k.
C28_WindowsHoldLatest ==
  /\ Len(query_times) = Held
  /\ Len(query_success) = Held
  /\ \A j \in 1..Held :
       /\ query_times[j] = Latency(record_calls - Held + j)
       /\ query_success[j] = Flag(Succeeds(record_calls - Held + j))
  /\ total_queries = record_calls
  /\ total_successful + total_failed = record_calls

\* two samples were evicted, both of failed queries
C28_Witness ==
  /\ record_calls = WindowLen + 2
  /\ fail_count = 11
  /\ total_failed = 11
  /\ Sum(query_success) = WindowLen - 9

\* C30: for every window size n from 1 to 100, collect_metrics takes p50,
\* p95 and p99 from the sorted window at the indexes floor(0.50 n),
\* floor(0.95 n) and floor(0.99 n), which lie inside the window.
C30_NearestRankEveryN ==
  (metrics # <<>> /\ metrics[1].n >= 1) =>
    /\ PercentileIndex(metrics[1].n, 99) < metrics[1].n
    /\ metrics[1].p50 = NearestRank(50)
    /\ metrics[1].p95 = NearestRank(95)
    /\ metrics[1].p99 = NearestRank(99)

(* ================================================================== *)
(* SpecRecord: several threads call record_query on one HealthMonitor. *)
(* The method takes no lock (lines 32-41).  Each deque.append is one   *)
(* indivisible call; each `+= 1` on an attribute is a read of the      *)
(* attribute followed by a write, and another thread may run between   *)
(* the two.                                                            *)
(* ================================================================== *)
MaxRecCalls == 1

RecordFrame == UNCHANGED <<orchVars, clock, clientVars, runVars, connVars, hsVars,
                           lifeVars, connection_checks, fail_count, lat_base,
                           metrics, healthy, frameVars, lateVars>>

AtRec(t, from, to) ==
  /\ recpc[t] = from
  /\ recpc' = [recpc EXCEPT ![t] = to]

\* record_query(latency_ms, success) is called; line 34
RecAppendTime(t) ==
  /\ rec_calls[t] < MaxRecCalls
  /\ AtRec(t, "idle", "append_success")
  /\ \E success \in BOOLEAN : rec_success' = [rec_success EXCEPT ![t] = success]
  /\ query_times' = DequeAppend(query_times, Latency(t), WindowLen)
  /\ rec_calls' = [rec_calls EXCEPT ![t] = @ + 1]
  /\ record_calls' = record_calls + 1
  /\ UNCHANGED <<query_success, total_queries, total_successful, total_failed, loaded>>
  /\ RecordFrame

\* line 35
RecAppendSuccess(t) ==
  /\ AtRec(t, "append_success", "load_total")
  /\ query_success' = DequeAppend(query_success, Flag(rec_success[t]), WindowLen)
  /\ UNCHANGED <<query_times, total_queries, total_successful, total_failed,
                 record_calls, rec_success, loaded, rec_calls>>
  /\ RecordFrame

\* line 36, self.total_queries += 1: the read
RecLoadTotal(t) ==
  /\ AtRec(t, "load_total", "store_total")
  /\ loaded' = [loaded EXCEPT ![t] = total_queries]
  /\ UNCHANGED <<monitorVars, rec_success, rec_calls>>
  /\ RecordFrame

\* line 36: the write
RecStoreTotal(t) ==
  /\ AtRec(t, "store_total", "load_count")
  /\ total_queries' = loaded[t] + 1
  /\ UNCHANGED <<query_times, query_success, total_successful, total_failed,
                 record_calls, rec_success, loaded, rec_calls>>
  /\ RecordFrame

\* lines 38-41: the read of the counter the query goes to
RecLoadCount(t) ==
  /\ AtRec(t, "load_count", "store_count")
  /\ loaded' = [loaded EXCEPT ![t] =
                  IF rec_success[t] THEN total_successful ELSE total_failed]
  /\ UNCHANGED <<monitorVars, rec_success, rec_calls>>
  /\ RecordFrame

\* lines 38-41: the write; record_query returns
RecStoreCount(t) ==
  /\ AtRec(t, "store_count", "idle")
  /\ IF rec_success[t]
     THEN total_successful' = loaded[t] + 1 /\ UNCHANGED total_failed
     ELSE total_failed' = loaded[t] + 1 /\ UNCHANGED total_successful
  /\ UNCHANGED <<query_times, query_success, total_queries, record_calls,
                 rec_success, loaded, rec_calls>>
  /\ RecordFrame

RecordNext ==
  \E t \in Threads :
    \/ RecAppendTime(t)
    \/ RecAppendSuccess(t)
    \/ RecLoadTotal(t)
    \/ RecStoreTotal(t)
    \/ RecLoadCount(t)
    \/ RecStoreCount(t)

InitRecord ==
  /\ OrchIdle /\ RunIdle /\ ConnIdle /\ HsIdle /\ LifeIdle /\ FrameIdle /\ LateIdle
  /\ ClientIdle /\ clock = 1
  /\ HealthIdle

SpecRecord == InitRecord /\ [][RecordNext]_vars

\* no thread is inside record_query
RecordersIdle == \A t \in Threads : recpc[t] = "idle"

\* C29: concurrent record_query calls lose no update: once the k calls made
\* so far have returned, total_queries = k = total_successful +
\* total_failed and each window has received k appends.
C29_NoLostUpdate ==
  RecordersIdle =>
    /\ total_queries = record_calls
    /\ total_successful + total_failed = record_calls
    /\ Len(query_times) = Held
    /\ Len(query_success) = Held

(* ------------------------------------------------------------------ *)
(* The connected flag against the state of the socket (SpecConn)       *)
(* ------------------------------------------------------------------ *)
\* the execute() call of thread t returns in this step, having met a closed
\* peer (recv returned no bytes) or a socket failure
MeetsDeadSocket(t) ==
  /\ LeavesRoundTrip(t)
  /\ \/ tpc[t] = "recv" /\ peer_closed
     \/ caught' \in SocketRaises

\* C24: the connected flag and the socket do not disagree beyond one
\* execute() call: a call that meets a closed peer or a failed socket
\* returns with connected false.
C24_Step == \A t \in Threads : MeetsDeadSocket(t) => ~db_connected'
C24_FlagFollowsSocket == [][C24_Step]_vars

(* ------------------------------------------------------------------ *)
(* The shape of what execute() returns (SpecConn)                      *)
(* ------------------------------------------------------------------ *)
\* the keys of the dict each return statement of execute() builds
OutcomeKeys(r) ==
  IF r = "success" THEN {"success", "result", "latency_ms", "query"}
  ELSE IF r \in {ErrNoReconnect, ErrNotConnected} THEN {"error", "success"}
  ELSE IF r = ErrTimeout THEN {"success", "error", "latency_ms", "query"}
  ELSE {"success", "error", "query"}

\* C26: whatever path an execute() call takes, what it returns carries
\* success, the query and latency_ms, with a result and no error on
\* success and an error and no result on failure.
C26_WellFormedOutcome ==
  \A t \in Threads :
    returned[t] # "none" =>
      /\ {"success", "query", "latency_ms"} \subseteq OutcomeKeys(returned[t])
      /\ returned[t] = "success" =>
           "result" \in OutcomeKeys(returned[t]) /\ "error" \notin OutcomeKeys(returned[t])
      /\ returned[t] # "success" =>
           "error" \in OutcomeKeys(returned[t]) /\ "result" \notin OutcomeKeys(returned[t])

(* ------------------------------------------------------------------ *)
(* The list of execution records of one session (SpecRun)              *)
(* ------------------------------------------------------------------ *)
\* a step leaves the list alone or appends one record to it
C27_Step ==
  \/ execution_results' = execution_results
  \/ /\ Len(execution_results') = Len(execution_results) + 1
     /\ SubSeq(execution_results', 1, Len(execution_results)) = execution_results

\* C27: during a session the list of execution records only grows at its
\* end, no record in it is changed or removed, and the k-th record has
\* query_index k.
C27_AppendOnlyIndexed ==
  /\ [](\A k \in 1..Len(execution_results) : execution_results[k].query_index = k)
  /\ [][C27_Step]_vars

\* the third record was appended in the second pass over a list of two queries
C27_Witness ==
  /\ Len(execution_results) = 3
  /\ execution_results[3].query_index = 3
  /\ execution_results[3].original_query_index = 1
  /\ execution_results[3].cycle = 2

(* ================================================================== *)
(* SpecFrame: one connect() call and the execute() calls that follow   *)
(* it on the same socket, with the server's bytes delivered in chunks  *)
(* of any size (tools/syndrdb_client.py, lines 46-78 and 119-134).     *)
(* ================================================================== *)
MaxResponses == 2
MaxExecCalls == 2

\* the two lines of a handshake that succeeds
HandshakeOk == <<"w", NL, "{", "K", "}", NL>>

ResponseLines == {<<"{", "}">>, <<"0">>}

\* up to n response lines, each ended by a newline
RECURSIVE ResponseStreams(_)
ResponseStreams(n) ==
  IF n = 0 THEN {<<>>}
  ELSE LET shorter == ResponseStreams(n - 1)
       IN shorter \cup {q \o r \o <<NL>> : q \in shorter, r \in ResponseLines}

\* the server closes during the handshake, or completes it and sends the
\* response lines
FrameStreams ==
  Prefixes(HandshakeOk) \cup {HandshakeOk \o x : x \in ResponseStreams(MaxResponses)}

ExecFrame == UNCHANGED <<orchVars, clock, allow_auto_reconnect, runVars, connVars,
                         lifeVars, healthVars, lateVars, hpc, opened, stream, reads, buffer,
                         welcome_msg, auth_msg, connect_returned, connect_error>>

\* execute(query) on the connected client: the query is sent and
\* response_data starts empty (lines 112-119)
FrCall ==
  /\ hpc = "returned"
  /\ db_connected
  /\ epc = "idle"
  /\ exec_calls < MaxExecCalls
  /\ epc' = "recv"
  /\ exec_data' = <<>>
  /\ exec_calls' = exec_calls + 1
  /\ UNCHANGED <<db_connected, stream_pos, decoded>>
  /\ ExecFrame

\* response_data.split(b'\n')[0]
SplitFirst(data) == SubSeq(data, 1, FirstNewline(data, 1) - 1)

\* one turn of the receive loop (lines 120-131): the chunk is added to
\* response_data; with a newline in it the text before the first newline is
\* kept and decoded (line 134)
FrRecvChunk ==
  /\ epc = "recv"
  /\ \E k \in 1..(Len(stream) - stream_pos) :
       LET chunk == SubSeq(stream, stream_pos + 1, stream_pos + k)
           data == exec_data \o chunk
       IN /\ stream_pos' = stream_pos + k
          /\ IF FirstNewline(data, 1) > 0
             THEN /\ exec_data' = SplitFirst(data)
                  /\ decoded' = Append(decoded, SplitFirst(data))
                  /\ epc' = "idle"
             ELSE /\ exec_data' = data
                  /\ UNCHANGED <<decoded, epc>>
  /\ UNCHANGED <<db_connected, exec_calls>>
  /\ ExecFrame

\* the server has nothing more to send: recv times out, or returns b'' when
\* the server has closed and what was received so far is decoded
FrRecvNothing ==
  /\ epc = "recv"
  /\ stream_pos = Len(stream)
  /\ \/ /\ db_connected' = ExceptConnected("timeout", db_connected)
        /\ UNCHANGED decoded
     \/ /\ decoded' = IF json_loads(exec_data) = "invalid" THEN decoded
                      ELSE Append(decoded, exec_data)
        /\ UNCHANGED db_connected
  /\ epc' = "idle"
  /\ UNCHANGED <<stream_pos, exec_data, exec_calls>>
  /\ ExecFrame

FrameNext ==
  \/ HsNext
  \/ FrCall
  \/ FrRecvChunk
  \/ FrRecvNothing

InitFrame ==
  /\ OrchIdle /\ RunIdle /\ ConnIdle /\ LifeIdle /\ HealthIdle /\ FrameIdle /\ LateIdle
  /\ ClientIdle /\ clock = 1
  /\ hpc = "call"
  /\ opened = "none"
  /\ stream \in FrameStreams
  /\ stream_pos = 0
  /\ reads = 0
  /\ buffer = <<>>
  /\ welcome_msg = <<>>
  /\ auth_msg = <<>>
  /\ connect_returned = "none"
  /\ connect_error = "none"

SpecFrame == InitFrame /\ [][FrameNext]_vars

\* C25: no byte that arrives after a newline is lost: the messages the
\* execute() calls decode are, in order, the lines the server sent after the
\* two lines of the handshake, however the bytes were split into reads.
C25_BytesRetained ==
  \A k \in 1..Len(decoded) :
    /\ Len(CompleteLines(stream)) >= 2 + k
    /\ decoded[k] = CompleteLines(stream)[2 + k]

(* ------------------------------------------------------------------ *)
(* Sockets a client leaves open (SpecLife)                             *)
(* ------------------------------------------------------------------ *)
\* the sockets the client has opened that are open now
OpenSockets == stale_open + (IF sock = "open" THEN 1 ELSE 0)

\* C31: after any sequence of connect(), execute() and disconnect() calls
\* at most one socket opened by the client is open: a socket it replaces
\* has been closed before.
C31_AtMostOneOpen == OpenSockets <= 1 /\ stale_open = 0

(* ================================================================== *)
(* SpecShare: threads inside execute() as in SpecConn, while another   *)
(* thread calls connect() or disconnect() on the same client.  Only    *)
(* execute() takes self._lock (line 103); connect() (lines 32-98) and  *)
(* disconnect() (lines 169-176) do not.                                *)
(* ================================================================== *)
MaxIntrusions == 1

\* some thread is between the send and the end of the receive of execute()
InRoundTrip == \E t \in Threads : tpc[t] \in {"send", "recv"}

\* the socket calls of execute() work on an open socket only
SocketUsable == sock = "open" \/ ~InRoundTrip

ShareFrame == UNCHANGED <<orchVars, clock, allow_auto_reconnect, runVars, hsVars,
                          healthVars, frameVars, lateVars, last_op, alternating>>

\* another thread calls disconnect(); no lock is taken
UnlockedDisconnect ==
  /\ life_calls < MaxIntrusions
  /\ \E raises \in BOOLEAN :
       /\ close_raised' = (sock # "none" /\ raises)
       /\ disconnect_result' = DisconnectResult(sock # "none" /\ raises)
  /\ sock' = SocketClosed(sock)
  /\ db_connected' = DisconnectConnected(db_connected)
  /\ life_calls' = life_calls + 1
  /\ UNCHANGED <<stale_open, lock, tpc, calls, returned, response_data, wire_pending,
                 peer_closed, attempts, caught>>
  /\ ShareFrame

\* another thread calls connect(); no lock is taken.  What the server had
\* still to answer was to be answered on the socket that is replaced.
UnlockedConnect ==
  /\ life_calls < MaxIntrusions
  /\ \E ok \in BOOLEAN : ConnectEffect(ok)
  /\ wire_pending' = 0
  /\ peer_closed' = FALSE
  /\ life_calls' = life_calls + 1
  /\ UNCHANGED <<close_raised, disconnect_result, lock, tpc, calls, returned,
                 response_data, attempts, caught>>
  /\ ShareFrame

\* sendall or recv on a socket that was closed or dropped under the call
\* raises OSError, which the generic except branch turns into an error outcome
SocketGone(t) ==
  /\ tpc[t] \in {"send", "recv"}
  /\ sock # "open"
  /\ Except(t, "OSError")
  /\ UNCHANGED <<allow_auto_reconnect, calls, response_data, wire_pending, peer_closed,
                 sock, attempts>>
  /\ ConnFrame

ShareNext ==
  \/ SocketUsable /\ ConnNext
  \/ UnlockedDisconnect
  \/ UnlockedConnect
  \/ \E t \in Threads : SocketGone(t)

SpecShare == InitConn /\ [][ShareNext]_vars

\* C32: while a thread is between the send and the end of the receive of an
\* execute(), no connect() or disconnect() of another thread closes or
\* replaces the socket of the client.
C32_Step == InRoundTrip => (sock' = sock /\ stale_open' = stale_open /\ life_calls' = life_calls)
C32_LockProtectsSocket == [][C32_Step]_vars

(* ================================================================== *)
(* SpecFilter: the read-only and write-only filters of the             *)
(* orchestrator (run-firestorm.py, lines 204-291) and the queries each *)
(* agent sends afterwards in _run_agent (lines 445-464).               *)
(* ================================================================== *)
\* query texts: the statement keyword, as written
QueryPool == {"SELECT", " show", "ADD", "update", "DELETE"}

\* what the run_session of the agents builds at run time
RuntimeQueries == {"SELECT", "ADD", "UPDATE", "DELETE"}

QueryLists == UNION {[1..n -> QueryPool] : n \in 0..MaxListLen}

\* query.strip().upper()
StripUpper(q) ==
  CASE q = " show" -> "SHOW"
    [] q = "update" -> "UPDATE"
    [] OTHER -> q

ReadVerbs == {"SELECT", "SHOW"}
WriteVerbs == {"ADD", "UPDATE", "DELETE"}

\* the list a filter leaves: the queries whose keyword the mode keeps; an
\* empty list is skipped by the filters (lines 220-221, 260-261)
Filtered(qs, verbs) == SelectSeq(qs, LAMBDA q : StripUpper(q) \in verbs)

FilterFrame == UNCHANGED <<orchVars, clock, clientVars, runVars, connVars, hsVars,
                           lifeVars, healthVars, frameVars, waitVars, createVars, logVars>>

\* lines 204-210: the filter of the configured mode runs over all agents
ApplyFilters ==
  /\ fpc = "loaded"
  /\ fpc' = "filtered"
  /\ agent_queries' =
       [a \in FilterAgents |->
          IF run_mode = "read_only" THEN Filtered(agent_queries[a], ReadVerbs)
          ELSE IF run_mode = "write_only" THEN Filtered(agent_queries[a], WriteVerbs)
          ELSE agent_queries[a]]
  /\ UNCHANGED <<run_mode, sent_count, last_sent>>
  /\ FilterFrame

\* the query an agent sends next: the next of its list, taken in cycles
\* (run_pregenerated_session), or, with an empty list, whatever its
\* run_session generates (lines 446-464)
NextQueries(a) ==
  IF agent_queries[a] # <<>>
  THEN {agent_queries[a][(sent_count[a] % Len(agent_queries[a])) + 1]}
  ELSE RuntimeQueries

AgentSends(a) ==
  /\ fpc = "filtered"
  /\ sent_count[a] < MaxFilterSends
  /\ \E q \in NextQueries(a) : last_sent' = [last_sent EXCEPT ![a] = q]
  /\ sent_count' = [sent_count EXCEPT ![a] = @ + 1]
  /\ UNCHANGED <<run_mode, agent_queries, fpc>>
  /\ FilterFrame

FilterNext ==
  \/ ApplyFilters
  \/ \E a \in FilterAgents : AgentSends(a)

InitFilter ==
  /\ OrchIdle /\ RunIdle /\ ConnIdle /\ HsIdle /\ LifeIdle /\ HealthIdle
  /\ FrameIdle /\ WaitIdle /\ CreateIdle /\ LogIdle /\ ClientIdle /\ clock = 1
  /\ run_mode \in {"none", "read_only", "write_only"}
  /\ agent_queries \in [FilterAgents -> QueryLists]
  /\ fpc = "loaded"
  /\ sent_count = [a \in FilterAgents |-> 0]
  /\ last_sent = [a \in FilterAgents |-> "none"]

SpecFilter == InitFilter /\ [][FilterNext]_vars

\* C33: in a read-only run every query an agent sends starts with SELECT or
\* SHOW, and an agent left without such a query sends nothing; in a
\* write-only run every query sent starts with ADD, UPDATE or DELETE.
C33_ModeRespected ==
  \A a \in FilterAgents :
    /\ (run_mode = "read_only" /\ last_sent[a] # "none") =>
         StripUpper(last_sent[a]) \in ReadVerbs
    /\ (run_mode = "write_only" /\ last_sent[a] # "none") =>
         StripUpper(last_sent[a]) \in WriteVerbs
    /\ (run_mode # "none" /\ fpc = "filtered" /\ agent_queries[a] = <<>>) =>
         sent_count[a] = 0

(* ================================================================== *)
(* SpecWait: the main thread in wait_for_completion and                *)
(* collect_metrics (run-firestorm.py, lines 547-599) while the runner  *)
(* threads finish their sessions.  The clock counts seconds.           *)
(* ================================================================== *)
Grace == 5
MaxWaitStop == 2
MaxWaitClock == 8
MaxMutations == 2

WaitFrame == UNCHANGED <<orchVars, clientVars, runVars, connVars, hsVars, lifeVars,
                         healthVars, frameVars, filterVars, createVars,
                         logVars>>

WaitTick ==
  /\ clock < MaxWaitClock
  /\ clock' = clock + 1
  /\ UNCHANGED waitVars
  /\ WaitFrame

\* a runner passes its deadline check and starts a query (base_agent.py,
\* lines 238-251); _execute_query counts it at once (line 112)
RunnerStarts(t) ==
  /\ runner_pos[t] = "loop"
  /\ clock < wait_stop
  /\ runner_mutations[t] < MaxMutations
  /\ runner_pos' = [runner_pos EXCEPT ![t] = "query"]
  /\ runner_mutations' = [runner_mutations EXCEPT ![t] = @ + 1]
  /\ UNCHANGED <<clock, wpc, join_idx, wait_stop, metrics_read>>
  /\ WaitFrame

\* the query returns, however long it took, and its result is counted and
\* recorded (base_agent.py, lines 116-141 and 287)
RunnerRecords(t) ==
  /\ runner_pos[t] = "query"
  /\ runner_pos' = [runner_pos EXCEPT ![t] = "loop"]
  /\ runner_mutations' = [runner_mutations EXCEPT ![t] = @ + 1]
  /\ UNCHANGED <<clock, wpc, join_idx, wait_stop, metrics_read>>
  /\ WaitFrame

\* the deadline check finds the stop time reached: the thread ends
RunnerExits(t) ==
  /\ runner_pos[t] = "loop"
  /\ clock >= wait_stop
  /\ runner_pos' = [runner_pos EXCEPT ![t] = "done"]
  /\ UNCHANGED <<clock, wpc, join_idx, wait_stop, runner_mutations, metrics_read>>
  /\ WaitFrame

\* lines 551-553: remaining_time = self.stop_time - time.time()
WaitEnter ==
  /\ wpc = "call"
  /\ IF wait_stop - clock > 0
     THEN wpc' = "join" /\ join_idx' = 1
     ELSE wpc' = "count" /\ UNCHANGED join_idx
  /\ UNCHANGED <<clock, wait_stop, runner_pos, runner_mutations, metrics_read>>
  /\ WaitFrame


\* lines 559-564: thread.join(timeout=time_left) returns when the thread has
\* ended or when stop_time + 5 is reached; with no time left the loop breaks
WaitJoin ==
  /\ wpc = "join"
  /\ IF join_idx > NumThreads THEN wpc' = "count" /\ UNCHANGED join_idx
     ELSE IF wait_stop - clock + Grace <= 0
     THEN wpc' = "count" /\ UNCHANGED join_idx
     ELSE /\ runner_pos[join_idx] = "done"
          /\ join_idx' = join_idx + 1
          /\ UNCHANGED wpc
  /\ UNCHANGED <<clock, wait_stop, runner_pos, runner_mutations, metrics_read>>
  /\ WaitFrame

\* lines 566-574: threads still alive are counted and logged; the method
\* returns
WaitReturns ==
  /\ wpc = "count"
  /\ wpc' = "returned"
  /\ UNCHANGED <<clock, join_idx, wait_stop, runner_pos, runner_mutations, metrics_read>>
  /\ WaitFrame

\* collect_metrics reads every agent's counters (lines 586-588)
WaitCollect ==
  /\ wpc = "returned"
  /\ wpc' = "collected"
  /\ metrics_read' = runner_mutations
  /\ UNCHANGED <<clock, join_idx, wait_stop, runner_pos, runner_mutations>>
  /\ WaitFrame

WaitNext ==
  \/ WaitTick
  \/ \E t \in Threads : RunnerStarts(t)
  \/ \E t \in Threads : RunnerRecords(t)
  \/ \E t \in Threads : RunnerExits(t)
  \/ WaitEnter
  \/ WaitJoin
  \/ WaitReturns
  \/ WaitCollect

InitWait ==
  /\ OrchIdle /\ RunIdle /\ ConnIdle /\ HsIdle /\ LifeIdle /\ HealthIdle /\ FrameIdle
  /\ FilterIdle /\ CreateIdle /\ LogIdle /\ ClientIdle
  /\ clock = 0
  /\ wpc = "call"
  /\ join_idx = 0
  /\ wait_stop \in 0..MaxWaitStop
  /\ runner_pos = [t \in Threads |-> "loop"]
  /\ runner_mutations = [t \in Threads |-> 0]
  /\ metrics_read = [t \in Threads |-> None]

SpecWait == InitWait /\ [][WaitNext]_vars

\* C34: once wait_for_completion has returned every runner thread has
\* ended, so collect_metrics reads no counter a thread may still change.
C34_JoinedBeforeCollect ==
  wpc \in {"returned", "collected"} => \A t \in Threads : runner_pos[t] = "done"

(* ------------------------------------------------------------------ *)
(* The cycle count and the counters of one session (SpecRun)           *)
(* ------------------------------------------------------------------ *)
\* the cycles in which the session sent a query
CyclesWithQueries ==
  {execution_results[k].cycle : k \in 1..Len(execution_results)}

\* C35: the cycle count a finished session reports is the number of cycles
\* in which it sent a query, which is the largest cycle number in its
\* records, and 0 when it sent nothing.
C35_CycleCountCountsSending ==
  spc = "done" =>
    /\ cycle_count = Cardinality(CyclesWithQueries)
    /\ \A c \in CyclesWithQueries : c <= cycle_count
    /\ cycle_count > 0 => cycle_count \in CyclesWithQueries

\* C36: after every step of a run the counters agree with the record log:
\* queries_executed = successful_queries + failed_queries, one stored error
\* per failed query, and one ExecutionRecord per execute() call of the run
\* (total_queries_executed).
C36_CountersConsistent ==
  /\ queries_executed = successful_queries + failed_queries
  /\ Len(errors) = failed_queries
  /\ Len(execution_results) = total_queries_executed

(* ------------------------------------------------------------------ *)
(* FirestormOrchestrator.create_agents (SpecCreate)                    *)
(* ------------------------------------------------------------------ *)
MaxRequested == 12

\* AGENT_DISTRIBUTION
AGENT_DISTRIBUTION ==
  [p \in Personas |-> CASE p = "casual_browser" -> 10
                        [] p = "power_user" -> 6
                        [] p = "admin" -> 2
                        [] p = "analyst" -> 2]

\* sum(d.values())
SumValues(d) ==
  d["casual_browser"] + d["power_user"] + d["admin"] + d["analyst"]

\* max(1, int((weight / total_weight) * self.num_agents))
PersonaCount(weight, total_weight, n) ==
  IF (weight * n) \div total_weight > 1 THEN (weight * n) \div total_weight ELSE 1

\* the adjustment of agent_counts["casual_browser"] to num_agents
Adjusted(counts, n) ==
  LET current_total == SumValues(counts)
  IN IF current_total < n
     THEN [counts EXCEPT !["casual_browser"] = @ + (n - current_total)]
     ELSE IF current_total > n
     THEN [counts EXCEPT !["casual_browser"] = @ - (current_total - n)]
     ELSE counts

CreateFrame == UNCHANGED <<orchVars, clock, clientVars, runVars, connVars, hsVars,
                           lifeVars, healthVars, frameVars, filterVars, waitVars,
                           logVars>>

\* for persona, weight in AGENT_DISTRIBUTION.items(): agent_counts[persona] = count
CountPersona ==
  /\ cpc = "count"
  /\ persona_idx <= Len(PersonaOrder)
  /\ LET persona == PersonaOrder[persona_idx]
     IN agent_counts' =
          [agent_counts EXCEPT ![persona] =
             PersonaCount(AGENT_DISTRIBUTION[persona], SumValues(AGENT_DISTRIBUTION),
                          requested_agents)]
  /\ persona_idx' = persona_idx + 1
  /\ UNCHANGED <<cpc, requested_agents, range_i, created_agents>>
  /\ CreateFrame

\* lines 114-121: adjust to match exact num_agents
AdjustCounts ==
  /\ cpc = "count"
  /\ persona_idx > Len(PersonaOrder)
  /\ agent_counts' = Adjusted(agent_counts, requested_agents)
  /\ cpc' = "create"
  /\ persona_idx' = 1
  /\ range_i' = 0
  /\ UNCHANGED <<requested_agents, created_agents>>
  /\ CreateFrame

\* one pass of `for i in range(count)`: _create_agent and self.agents.append
CreateAgent ==
  /\ cpc = "create"
  /\ persona_idx <= Len(PersonaOrder)
  /\ range_i < agent_counts[PersonaOrder[persona_idx]]
  /\ created_agents' = Append(created_agents, PersonaOrder[persona_idx])
  /\ range_i' = range_i + 1
  /\ UNCHANGED <<cpc, requested_agents, agent_counts, persona_idx>>
  /\ CreateFrame

\* range(count) is exhausted (at once when count <= 0): the next persona
NextPersona ==
  /\ cpc = "create"
  /\ persona_idx <= Len(PersonaOrder)
  /\ range_i >= agent_counts[PersonaOrder[persona_idx]]
  /\ persona_idx' = persona_idx + 1
  /\ range_i' = 0
  /\ cpc' = IF persona_idx = Len(PersonaOrder) THEN "done" ELSE "create"
  /\ UNCHANGED <<requested_agents, agent_counts, created_agents>>
  /\ CreateFrame

CreateNext == CountPersona \/ AdjustCounts \/ CreateAgent \/ NextPersona

InitCreate ==
  /\ OrchIdle /\ RunIdle /\ ConnIdle /\ HsIdle /\ LifeIdle /\ HealthIdle /\ FrameIdle
  /\ FilterIdle /\ WaitIdle /\ LogIdle /\ ClientIdle /\ clock = 0
  /\ cpc = "count"
  /\ requested_agents \in 1..MaxRequested
  /\ agent_counts = [p \in Personas |-> 0]
  /\ persona_idx = 1
  /\ range_i = 0
  /\ created_agents = <<>>

SpecCreate == InitCreate /\ [][CreateNext]_vars

\* C37: create_agents creates exactly num_agents agents for every
\* num_agents >= 1, and no persona count is negative after the adjustment.
C37_ExactlyNumAgents ==
  /\ cpc \in {"create", "done"} => \A p \in Personas : agent_counts[p] >= 0
  /\ cpc = "done" => Len(created_agents) = requested_agents

(* ------------------------------------------------------------------ *)
(* MemoryMappedLogHandler (SpecLog, SpecLogFair)                       *)
(* ------------------------------------------------------------------ *)
MaxEmits == 3
MaxMsgLen == 2
\* the constructor's arguments max_size and queue_size
max_size == 4
queue_size == 2

LogFrame == UNCHANGED <<orchVars, clock, clientVars, runVars, connVars, hsVars,
                        lifeVars, healthVars, frameVars, filterVars, waitVars,
                        createVars>>

\* emit(record): put_nowait(msg), the message is dropped when the queue is full;
\* n is the length of the encoded message
Emit(n) ==
  /\ emit_calls < MaxEmits
  /\ emit_calls' = emit_calls + 1
  /\ LET m == [id |-> emit_calls + 1, len |-> n]
     IN IF Len(log_queue) < queue_size
        THEN /\ log_queue' = Append(log_queue, m)
             /\ unfinished_tasks' = unfinished_tasks + 1
             /\ accepted' = Append(accepted, m)
        ELSE UNCHANGED <<log_queue, unfinished_tasks, accepted>>
  /\ UNCHANGED <<running, current_position, wrpc, writer_msg, processed, stpc, flpc,
                 flush_mark>>
  /\ LogFrame

\* _writer_loop: `while self.running`
WriterLoop ==
  /\ wrpc = "loop"
  /\ wrpc' = IF running THEN "get" ELSE "exited"
  /\ UNCHANGED <<log_queue, unfinished_tasks, running, current_position, writer_msg,
                 accepted, processed, stpc, flpc, flush_mark, emit_calls>>
  /\ LogFrame

\* msg = self.log_queue.get(timeout=0.1) returns a message
WriterGet ==
  /\ wrpc = "get"
  /\ log_queue # <<>>
  /\ writer_msg' = <<Head(log_queue)>>
  /\ log_queue' = Tail(log_queue)
  /\ wrpc' = "write"
  /\ UNCHANGED <<unfinished_tasks, running, current_position, accepted, processed,
                 stpc, flpc, flush_mark, emit_calls>>
  /\ LogFrame

\* the get times out on an empty queue: queue.Empty, continue
WriterEmpty ==
  /\ wrpc = "get"
  /\ log_queue = <<>>
  /\ wrpc' = "loop"
  /\ UNCHANGED <<log_queue, unfinished_tasks, running, current_position, writer_msg,
                 accepted, processed, stpc, flpc, flush_mark, emit_calls>>
  /\ LogFrame

\* _write_to_mmap: the position after msg, which is not written when it
\* would reach max_size
WriteToMmap(pos, m) ==
  IF pos + m.len >= max_size THEN pos ELSE pos + m.len

\* self._write_to_mmap(msg); self.log_queue.task_done()
WriterWrite ==
  /\ wrpc = "write"
  /\ current_position' = WriteToMmap(current_position, writer_msg[1])
  /\ processed' = Append(processed, writer_msg[1])
  /\ unfinished_tasks' = unfinished_tasks - 1
  /\ writer_msg' = <<>>
  /\ wrpc' = "loop"
  /\ UNCHANGED <<log_queue, running, accepted, stpc, flpc, flush_mark, emit_calls>>
  /\ LogFrame

WriterNext == WriterLoop \/ WriterGet \/ WriterEmpty \/ WriterWrite

\* stop(): `if self.running: self.running = False`
StopCall ==
  /\ stpc = "idle"
  /\ IF running
     THEN running' = FALSE /\ stpc' = "queue_join"
     ELSE running' = running /\ stpc' = "returned"
  /\ UNCHANGED <<log_queue, unfinished_tasks, current_position, wrpc, writer_msg,
                 accepted, processed, flpc, flush_mark, emit_calls>>
  /\ LogFrame

\* self.log_queue.join() returns once every put() was matched by a task_done()
StopQueueJoin ==
  /\ stpc = "queue_join"
  /\ unfinished_tasks = 0
  /\ stpc' = "thread_join"
  /\ UNCHANGED <<log_queue, unfinished_tasks, running, current_position, wrpc,
                 writer_msg, accepted, processed, flpc, flush_mark, emit_calls>>
  /\ LogFrame

\* self.writer_thread.join(timeout=timeout): the thread ended or the timeout ran out
StopThreadJoin ==
  /\ stpc = "thread_join"
  /\ stpc' = "returned"
  /\ UNCHANGED <<log_queue, unfinished_tasks, running, current_position, wrpc,
                 writer_msg, accepted, processed, flpc, flush_mark, emit_calls>>
  /\ LogFrame

\* flush() is called
FlushCall ==
  /\ flpc = "idle"
  /\ flpc' = "join"
  /\ flush_mark' = Len(accepted)
  /\ UNCHANGED <<log_queue, unfinished_tasks, running, current_position, wrpc,
                 writer_msg, accepted, processed, stpc, emit_calls>>
  /\ LogFrame

\* flush(): self.log_queue.join() returns, then self.mmap.flush()
FlushJoin ==
  /\ flpc = "join"
  /\ unfinished_tasks = 0
  /\ flpc' = "returned"
  /\ UNCHANGED <<log_queue, unfinished_tasks, running, current_position, wrpc,
                 writer_msg, accepted, processed, stpc, flush_mark, emit_calls>>
  /\ LogFrame

LogNext ==
  \/ \E n \in 1..MaxMsgLen : Emit(n)
  \/ WriterNext
  \/ StopCall \/ StopQueueJoin \/ StopThreadJoin
  \/ FlushCall \/ FlushJoin

\* the handler as __init__ leaves it: the file is fresh and start() has
\* started the writer thread
InitLog ==
  /\ OrchIdle /\ RunIdle /\ ConnIdle /\ HsIdle /\ LifeIdle /\ HealthIdle /\ FrameIdle
  /\ FilterIdle /\ WaitIdle /\ CreateIdle /\ ClientIdle /\ clock = 0
  /\ log_queue = <<>>
  /\ unfinished_tasks = 0
  /\ running = TRUE
  /\ current_position = 0
  /\ wrpc = "loop"
  /\ writer_msg = <<>>
  /\ accepted = <<>>
  /\ processed = <<>>
  /\ stpc = "idle"
  /\ flpc = "idle"
  /\ flush_mark = 0
  /\ emit_calls = 0

SpecLog == InitLog /\ [][LogNext]_vars

\* every thread that can take a step is scheduled in the end: the writer thread,
\* and the threads that are inside stop() and flush()
SpecLogFair ==
  /\ SpecLog
  /\ WF_vars(WriterNext)
  /\ WF_vars(StopQueueJoin \/ StopThreadJoin)
  /\ WF_vars(FlushJoin)

\* the messages accepted before the flush were processed, in emission order
FlushedInOrder ==
  /\ flush_mark <= Len(processed)
  /\ SubSeq(processed, 1, flush_mark) = SubSeq(accepted, 1, flush_mark)

\* C38: flush() returns, and when it has returned every message emit() put
\* into the queue before the flush has been processed by the writer thread in
\* emission order, and the write position never exceeds max_size.
C38_FlushCompletes ==
  /\ [](flpc = "returned" => FlushedInOrder)
  /\ [](current_position <= max_size)
  /\ (flpc = "join") ~> (flpc = "returned")

\* C39: stop() always terminates, whatever is queued when it is called and
\* however emit() calls of other threads interleave with it.
C39_StopTerminates ==
  (stpc \in {"queue_join", "thread_join"}) ~> (stpc = "returned")

====
